---------------------------- MODULE Spec2Model ----------------------------
(***************************************************************************)
(* Correlation engine of soc-ml-poc (server/correlation.go): the builder   *)
(* of user-to-IP correlations, the temporal grouper, the confidence model, *)
(* the merger and the user_correlations store, as a state machine; with    *)
(* it the log normalizer and the alert analysis handler (server/analysis.go) *)
(* that feeds it and stores its result in analysis_results.                *)
(*                                                                         *)
(* Encodings.                                                              *)
(*  - time.Time / time.Duration are integers counted in minutes.           *)
(*  - a float64 score x is the integer 10000 * x; a float64 result that is *)
(*    one step of float64 off a decimal tenth is that tenth plus or minus  *)
(*    1 (see FAdd).                                                        *)
(*  - a []string of source systems is the set of its elements.             *)
(*  - a []UserCorrelation built from a Go map (whose range order is        *)
(*    unspecified) is the set of its elements; keys are unique in it.      *)
(***************************************************************************)
EXTENDS Integers, Sequences, FiniteSets, TLC

VARIABLES
    pc,                   \* position of the current operation
    logs,                 \* []NormalizedLog handed to the engine
    groups,               \* result of groupLogsByTime
    emailLog,             \* first argument of calculateConfidenceScore
    ipLog,                \* second argument of calculateConfidenceScore
    confidence,           \* result of calculateConfidenceScore
    userCorrelations,     \* result of buildUserIPCorrelations
    pending,              \* correlations the store loop has still to write
    existingCorrelations, \* result of getExistingCorrelations
    allCorrelations,      \* result of mergeCorrelations
    remerged,             \* results of merging allCorrelations once more
    table,                \* rows of user_correlations
    keyConstraint,        \* user_correlations has a unique index on the key
    submitted,            \* per key, sources of the upserts the database executed
    runs,                 \* analysis runs started so far
    correlationScore,     \* result of calculateCorrelationScore
    storeFailed,          \* a storeUserCorrelation of this run returned an error
    workers,              \* per asynq worker, correlations its store loop has to write
    written,              \* correlations whose store statement the database executed
    alert,                \* alert id of the task handleAlertAnalysis is handling
    lokiLogs,             \* []LokiLog returned by QueryLogsAroundTime
    lokiFailed,           \* QueryLogsAroundTime returned an error in this run
    analysisResults,      \* rows of analysis_results: alert_id, result_data
    lastResult            \* per alert id, bundle and number of its successful writes

vars == <<pc, logs, groups, emailLog, ipLog, confidence, userCorrelations,
          pending, existingCorrelations, allCorrelations, remerged, table,
          keyConstraint, submitted, runs, correlationScore, storeFailed,
          workers, written, alert, lokiLogs, lokiFailed, analysisResults,
          lastResult>>

storeVars == <<workers, written>>

analysisVars == <<alert, lokiLogs, lokiFailed, analysisResults, lastResult>>

---------------------------------------------------------------------------
(* Program constants *)

Minute == 1
GroupWindow == 5
BaseScore == 5000
BonusWithin1Min == 3000
BonusWithin5Min == 2000
BonusWithin15Min == 1000
CompanyBonus == 2000
HostBonus == 1000
ScoreCap == 10000
DirectConfidence == 9000

(* Bounds of the model *)

MaxGroupLogs == 4
MaxBuildLogs == 2
MaxScoreTime == 17
MaxRuns == 3
MaxRunLogs == 2
MaxMergeRows == 2
MaxAggregateLogs == 3
MaxAggregateRows == 3
MaxWorkers == 2
MaxLokiLogs == 2
MaxAnalyses == 2

---------------------------------------------------------------------------
(* Values *)

Identities == {"u1", "u2"}
Addresses == {"i1", "i2"}
Sources == {"aws_waf", "deep_security"}
Codes == {"", "c1", "c2"}
Hosts == {"", "h1", "h2"}

NoLog == [Timestamp |-> 0, UserEmails |-> <<>>, IPAddresses |-> <<>>,
          Source |-> "unknown", CompanyCode |-> "", Host |-> ""]

Key(c) == <<c.UserIdentifier, c.IPAddress>>

Keys(cs) == {Key(c) : c \in cs}

Lookup(cs, k) == CHOOSE c \in cs : Key(c) = k

UniqueKeys(cs) == \A c, d \in cs : Key(c) = Key(d) => c = d

Max(a, b) == IF a >= b THEN a ELSE b

(* float64 addition on the encoded scores: an encoded score is 10000 times *)
(* the nearest decimal plus the distance to it in float64 steps, so 7999 is *)
(* 0.7999999999999999 and 3001 is 0.30000000000000004.  FAddRounded lists,  *)
(* as <<x, y, x + y in float64>>, the sums of the confidence model and of   *)
(* the aggregate score over up to 6 correlations that differ from the sum   *)
(* of the encodings; every other sum they form is the sum of the encodings. *)
FAddRounded ==
    {<<1000, 2000, 3001>>, <<2000, 1000, 3001>>, <<3001, 1000, 4000>>,
     <<3001, 2000, 5000>>, <<4000, 2000, 6001>>, <<6000, 3000, 8999>>,
     <<6001, 2000, 8000>>, <<7000, 1000, 7999>>, <<7000, 2000, 8999>>,
     <<7001, 1000, 8000>>, <<7001, 3000, 10000>>, <<7999, 2000, 10000>>,
     <<8999, 3000, 12000>>, <<9001, 2000, 11000>>, <<9999, 2000, 12000>>,
     <<10999, 1000, 12000>>, <<10999, 3000, 14000>>, <<11000, 1000, 12001>>,
     <<11000, 3000, 14001>>, <<11001, 1000, 12002>>, <<11001, 3000, 14002>>,
     <<12999, 1000, 14000>>, <<13000, 1000, 14001>>, <<13001, 1000, 14002>>,
     <<14000, 2000, 15999>>, <<14001, 2000, 16000>>, <<14002, 2000, 16001>>,
     <<15999, 1000, 17000>>, <<15999, 3000, 19000>>, <<16000, 3000, 19001>>}

FAdd(x, y) ==
    IF \E e \in FAddRounded : e[1] = x /\ e[2] = y
    THEN (CHOOSE e \in FAddRounded : e[1] = x /\ e[2] = y)[3]
    ELSE x + y

(* float64(n) * 0.1 for n up to 6: 0.30000000000000004 and                  *)
(* 0.6000000000000001 are the products that are not the decimal one.        *)
FMulTenth(n) == IF n \in {3, 6} THEN 1000 * n + 1 ELSE 1000 * n

---------------------------------------------------------------------------
(* calculateConfidenceScore *)

calculateConfidenceScoreNoAbs(a, b) ==
    LET timeDiff == a.Timestamp - b.Timestamp
        s1 == IF timeDiff <= 1 * Minute THEN FAdd(BaseScore, BonusWithin1Min)
              ELSE IF timeDiff <= 5 * Minute THEN FAdd(BaseScore, BonusWithin5Min)
              ELSE IF timeDiff <= 15 * Minute THEN FAdd(BaseScore, BonusWithin15Min)
              ELSE BaseScore
        s2 == IF a.CompanyCode # "" /\ a.CompanyCode = b.CompanyCode
              THEN FAdd(s1, CompanyBonus) ELSE s1
        s3 == IF a.Host # "" /\ a.Host = b.Host THEN FAdd(s2, HostBonus) ELSE s2
    IN  IF s3 > ScoreCap THEN ScoreCap ELSE s3

calculateConfidenceScoreNoCap(a, b) ==
    LET d == a.Timestamp - b.Timestamp
        timeDiff == IF d < 0 THEN -d ELSE d
        s1 == IF timeDiff <= 1 * Minute THEN FAdd(BaseScore, BonusWithin1Min)
              ELSE IF timeDiff <= 5 * Minute THEN FAdd(BaseScore, BonusWithin5Min)
              ELSE IF timeDiff <= 15 * Minute THEN FAdd(BaseScore, BonusWithin15Min)
              ELSE BaseScore
        s2 == IF a.CompanyCode # "" /\ a.CompanyCode = b.CompanyCode
              THEN FAdd(s1, CompanyBonus) ELSE s1
    IN  IF a.Host # "" /\ a.Host = b.Host THEN FAdd(s2, HostBonus) ELSE s2

calculateConfidenceScore(a, b) ==
    LET d == a.Timestamp - b.Timestamp
        timeDiff == IF d < 0 THEN -d ELSE d
        s1 == IF timeDiff <= 1 * Minute THEN FAdd(BaseScore, BonusWithin1Min)
              ELSE IF timeDiff <= 5 * Minute THEN FAdd(BaseScore, BonusWithin5Min)
              ELSE IF timeDiff <= 15 * Minute THEN FAdd(BaseScore, BonusWithin15Min)
              ELSE BaseScore
        s2 == IF a.CompanyCode # "" /\ a.CompanyCode = b.CompanyCode
              THEN FAdd(s1, CompanyBonus) ELSE s1
        s3 == IF a.Host # "" /\ a.Host = b.Host THEN FAdd(s2, HostBonus) ELSE s2
    IN  IF s3 > ScoreCap THEN ScoreCap ELSE s3

---------------------------------------------------------------------------
(* groupLogsByTime *)

Swap(s, j) == [s EXCEPT ![j] = s[j + 1], ![j + 1] = s[j]]

RECURSIVE InnerPassSwapEqual(_, _, _)
InnerPassSwapEqual(s, j, last) ==
    IF j > last THEN s
    ELSE InnerPassSwapEqual(IF s[j].Timestamp >= s[j + 1].Timestamp
                            THEN Swap(s, j) ELSE s,
                            j + 1, last)

RECURSIVE InnerPass(_, _, _)
InnerPass(s, j, last) ==
    IF j > last THEN s
    ELSE InnerPass(IF s[j].Timestamp > s[j + 1].Timestamp THEN Swap(s, j) ELSE s,
                   j + 1, last)

RECURSIVE OuterPass(_, _)
OuterPass(s, i) ==
    IF i > Len(s) - 2 THEN s
    ELSE OuterPass(InnerPass(s, 1, Len(s) - i - 1), i + 1)

BubbleSort(s) == OuterPass(s, 0)

RECURSIVE GroupWalkNoAnchor(_, _, _, _, _, _)
GroupWalkNoAnchor(s, i, currentGroup, groupStart, acc, window) ==
    IF i > Len(s) THEN Append(acc, currentGroup)
    ELSE IF s[i].Timestamp - s[i - 1].Timestamp <= window
         THEN GroupWalkNoAnchor(s, i + 1, Append(currentGroup, s[i]), groupStart,
                                acc, window)
         ELSE GroupWalkNoAnchor(s, i + 1, <<s[i]>>, s[i].Timestamp,
                                Append(acc, currentGroup), window)

RECURSIVE GroupWalk(_, _, _, _, _, _)
GroupWalk(s, i, currentGroup, groupStart, acc, window) ==
    IF i > Len(s) THEN Append(acc, currentGroup)
    ELSE IF s[i].Timestamp - groupStart <= window
         THEN GroupWalk(s, i + 1, Append(currentGroup, s[i]), groupStart,
                        acc, window)
         ELSE GroupWalk(s, i + 1, <<s[i]>>, s[i].Timestamp,
                        Append(acc, currentGroup), window)

groupLogsByTimeSliding(ls, window) ==
    IF Len(ls) = 0 THEN <<>>
    ELSE LET sortedLogs == BubbleSort(ls)
         IN  GroupWalkNoAnchor(sortedLogs, 2, <<sortedLogs[1]>>,
                               sortedLogs[1].Timestamp, <<>>, window)

groupLogsByTime(ls, window) ==
    IF Len(ls) = 0 THEN <<>>
    ELSE LET sortedLogs == BubbleSort(ls)
         IN  GroupWalk(sortedLogs, 2, <<sortedLogs[1]>>,
                       sortedLogs[1].Timestamp, <<>>, window)

---------------------------------------------------------------------------
(* buildUserIPCorrelations and deduplicateCorrelations *)

filterLogsByEmails(ls) == SelectSeq(ls, LAMBDA l : Len(l.UserEmails) > 0)

filterLogsByIPs(ls) == SelectSeq(ls, LAMBDA l : Len(l.IPAddresses) > 0)

TimeProximityCorrelationOrdered(eLog, email, iLog, ip) ==
    [UserIdentifier  |-> email,
     IPAddress       |-> ip,
     FirstSeen       |-> IF eLog.Timestamp <= iLog.Timestamp
                         THEN eLog.Timestamp ELSE iLog.Timestamp,
     LastSeen        |-> IF eLog.Timestamp <= iLog.Timestamp
                         THEN iLog.Timestamp ELSE eLog.Timestamp,
     ConfidenceScore |-> calculateConfidenceScore(eLog, iLog),
     SourceSystems   |-> {eLog.Source, iLog.Source},
     CorrelationType |-> "time_proximity"]

TimeProximityCorrelation(eLog, email, iLog, ip) ==
    [UserIdentifier  |-> email,
     IPAddress       |-> ip,
     FirstSeen       |-> eLog.Timestamp,
     LastSeen        |-> iLog.Timestamp,
     ConfidenceScore |-> calculateConfidenceScore(eLog, iLog),
     SourceSystems   |-> {eLog.Source, iLog.Source},
     CorrelationType |-> "time_proximity"]

DirectCorrelation(log, email, ip) ==
    [UserIdentifier  |-> email,
     IPAddress       |-> ip,
     FirstSeen       |-> log.Timestamp,
     LastSeen        |-> log.Timestamp,
     ConfidenceScore |-> DirectConfidence,
     SourceSystems   |-> {log.Source},
     CorrelationType |-> "direct"]

(* The four nested loops over one time group, in the order the code appends. *)
GroupCandidates(group) ==
    LET emailLogs == filterLogsByEmails(group)
        ipLogs == filterLogsByIPs(group)
        ForIPs(eLog, email, iLog) ==
            [n \in 1..Len(iLog.IPAddresses) |->
                TimeProximityCorrelation(eLog, email, iLog, iLog.IPAddresses[n])]
        ForIPLogs(eLog, email) ==
            LET f[i \in 0..Len(ipLogs)] ==
                    IF i = 0 THEN <<>>
                    ELSE f[i - 1] \o ForIPs(eLog, email, ipLogs[i])
            IN  f[Len(ipLogs)]
        ForEmails(eLog) ==
            LET f[i \in 0..Len(eLog.UserEmails)] ==
                    IF i = 0 THEN <<>>
                    ELSE f[i - 1] \o ForIPLogs(eLog, eLog.UserEmails[i])
            IN  f[Len(eLog.UserEmails)]
        f[i \in 0..Len(emailLogs)] ==
            IF i = 0 THEN <<>> ELSE f[i - 1] \o ForEmails(emailLogs[i])
    IN  f[Len(emailLogs)]

TimeProximityCandidates(ls) ==
    LET timeGroups == groupLogsByTime(ls, GroupWindow * Minute)
        f[i \in 0..Len(timeGroups)] ==
            IF i = 0 THEN <<>> ELSE f[i - 1] \o GroupCandidates(timeGroups[i])
    IN  f[Len(timeGroups)]

(* The direct pass over the logs in input order. *)
DirectCandidates(ls) ==
    LET ForLog(log) ==
            IF Len(log.UserEmails) > 0 /\ Len(log.IPAddresses) > 0
            THEN LET ForEmail(email) ==
                         [n \in 1..Len(log.IPAddresses) |->
                             DirectCorrelation(log, email, log.IPAddresses[n])]
                     g[i \in 0..Len(log.UserEmails)] ==
                         IF i = 0 THEN <<>>
                         ELSE g[i - 1] \o ForEmail(log.UserEmails[i])
                 IN  g[Len(log.UserEmails)]
            ELSE <<>>
        f[i \in 0..Len(ls)] ==
            IF i = 0 THEN <<>> ELSE f[i - 1] \o ForLog(ls[i])
    IN  f[Len(ls)]

Candidates(ls) == TimeProximityCandidates(ls) \o DirectCandidates(ls)

deduplicateCorrelationsKeepLower(cands) ==
    LET f[i \in 0..Len(cands)] ==
            IF i = 0 THEN {}
            ELSE LET correlationMap == f[i - 1]
                     correlation == cands[i]
                 IN  IF Key(correlation) \in Keys(correlationMap)
                     THEN LET existing == Lookup(correlationMap, Key(correlation))
                          IN  IF correlation.ConfidenceScore < existing.ConfidenceScore
                              THEN (correlationMap \ {existing}) \cup {correlation}
                              ELSE correlationMap
                     ELSE correlationMap \cup {correlation}
    IN  f[Len(cands)]

deduplicateCorrelations(cands) ==
    LET f[i \in 0..Len(cands)] ==
            IF i = 0 THEN {}
            ELSE LET correlationMap == f[i - 1]
                     correlation == cands[i]
                 IN  IF Key(correlation) \in Keys(correlationMap)
                     THEN LET existing == Lookup(correlationMap, Key(correlation))
                          IN  IF correlation.ConfidenceScore > existing.ConfidenceScore
                              THEN (correlationMap \ {existing}) \cup {correlation}
                              ELSE correlationMap
                     ELSE correlationMap \cup {correlation}
    IN  f[Len(cands)]

buildUserIPCorrelations(ls) == deduplicateCorrelations(Candidates(ls))

---------------------------------------------------------------------------
(* mergeCorrelations and mergeSources *)

mergeSourcesSecondOnly(sources1, sources2) == sources2

mergeSources(sources1, sources2) == sources1 \cup sources2

(* The loop over the new correlations; each slice holds a key once, so the *)
(* order in which the loop visits them does not change the result.         *)
RECURSIVE MergeNew(_, _)
MergeNew(correlationMap, new) ==
    IF new = {} THEN correlationMap
    ELSE LET correlation == CHOOSE c \in new : TRUE
             key == Key(correlation)
         IN  IF key \in Keys(correlationMap)
             THEN LET existing == Lookup(correlationMap, key)
                      merged ==
                          [existing EXCEPT
                              !.ConfidenceScore =
                                  IF correlation.ConfidenceScore > @
                                  THEN correlation.ConfidenceScore ELSE @,
                              !.SourceSystems =
                                  mergeSources(@, correlation.SourceSystems)]
                  IN  MergeNew((correlationMap \ {existing}) \cup {merged},
                               new \ {correlation})
             ELSE MergeNew(correlationMap \cup {correlation}, new \ {correlation})

RECURSIVE MergeNewBoost(_, _)
MergeNewBoost(correlationMap, new) ==
    IF new = {} THEN correlationMap
    ELSE LET correlation == CHOOSE c \in new : TRUE
             key == Key(correlation)
         IN  IF key \in Keys(correlationMap)
             THEN LET existing == Lookup(correlationMap, key)
                      merged ==
                          [existing EXCEPT
                              !.ConfidenceScore =
                                  IF Max(@, correlation.ConfidenceScore) + 1000
                                         > ScoreCap
                                  THEN ScoreCap
                                  ELSE Max(@, correlation.ConfidenceScore) + 1000,
                              !.SourceSystems =
                                  mergeSources(@, correlation.SourceSystems)]
                  IN  MergeNewBoost((correlationMap \ {existing}) \cup {merged},
                                    new \ {correlation})
             ELSE MergeNewBoost(correlationMap \cup {correlation},
                                new \ {correlation})

mergeCorrelationsSharedOnly(new, existing) ==
    MergeNew({r \in existing : Key(r) \in Keys(new)}, new)

mergeCorrelationsBoost(new, existing) == MergeNewBoost(existing, new)

mergeCorrelations(new, existing) == MergeNew(existing, new)

---------------------------------------------------------------------------
(* calculateCorrelationScore *)

(* The orders in which a slice built from a Go map can hold the set cs. *)
Orders(cs) ==
    {o \in [1..Cardinality(cs) -> cs] :
        \A m, n \in 1..Cardinality(cs) : o[m] = o[n] => m = n}

RECURSIVE ConfidenceBonuses(_, _)
ConfidenceBonuses(score, cs) ==
    IF cs = <<>> THEN score
    ELSE ConfidenceBonuses(
             IF Head(cs).ConfidenceScore > 8000 THEN FAdd(score, 2000)
             ELSE IF Head(cs).ConfidenceScore > 6000 THEN FAdd(score, 1000)
             ELSE score,
             Tail(cs))

SourceMap(ls) == {ls[n].Source : n \in 1..Len(ls)}

calculateCorrelationScoreNoCap(ls, cs) ==
    IF Len(ls) = 0 THEN 0
    ELSE LET s1 == ConfidenceBonuses(FMulTenth(Len(cs)), cs)
         IN  IF Cardinality(SourceMap(ls)) > 2 THEN FAdd(s1, 3000)
             ELSE IF Cardinality(SourceMap(ls)) > 1 THEN FAdd(s1, 2000)
             ELSE s1

calculateCorrelationScoreFromTenth(ls, cs) ==
    LET s1 == ConfidenceBonuses(FMulTenth(Len(cs) + 1), cs)
        s2 == IF Cardinality(SourceMap(ls)) > 2 THEN FAdd(s1, 3000)
              ELSE IF Cardinality(SourceMap(ls)) > 1 THEN FAdd(s1, 2000)
              ELSE s1
    IN  IF s2 > 10000 THEN 10000 ELSE s2

calculateCorrelationScore(ls, cs) ==
    IF Len(ls) = 0 THEN 0
    ELSE LET s1 == ConfidenceBonuses(FMulTenth(Len(cs)), cs)
             s2 == IF Cardinality(SourceMap(ls)) > 2 THEN FAdd(s1, 3000)
                   ELSE IF Cardinality(SourceMap(ls)) > 1 THEN FAdd(s1, 2000)
                   ELSE s1
         IN  IF s2 > 10000 THEN 10000 ELSE s2

---------------------------------------------------------------------------
(* The user_correlations table: storeUserCorrelation, getExistingCorrelations *)

Row(c) ==
    [UserIdentifier  |-> c.UserIdentifier,
     IPAddress       |-> c.IPAddress,
     FirstSeen       |-> c.FirstSeen,
     LastSeen        |-> c.LastSeen,
     ConfidenceScore |-> c.ConfidenceScore,
     SourceSystems   |-> c.SourceSystems]

(* INSERT ... ON CONFLICT (user_identifier, ip_address) DO UPDATE, on a    *)
(* table that has the unique index the conflict target names.              *)
Upsert(tbl, c) ==
    IF Key(c) \in Keys(tbl)
    THEN LET old == Lookup(tbl, Key(c))
             new == [old EXCEPT
                        !.LastSeen = Max(@, c.LastSeen),
                        !.ConfidenceScore = Max(@, c.ConfidenceScore),
                        !.SourceSystems = @ \cup c.SourceSystems]
         IN  (tbl \ {old}) \cup {new}
    ELSE tbl \cup {Row(c)}

EmailsOf(log) == {log.UserEmails[m] : m \in 1..Len(log.UserEmails)}

IPsOf(log) == {log.IPAddresses[m] : m \in 1..Len(log.IPAddresses)}

(* The rows the SELECT of getExistingCorrelations returns. *)
QueryRows(tbl, ls) ==
    LET ips == UNION {IPsOf(ls[n]) : n \in 1..Len(ls)}
        emails == UNION {EmailsOf(ls[n]) : n \in 1..Len(ls)}
    IN  IF ips # {} \/ emails # {}
        THEN {x \in tbl : x.UserIdentifier \in emails \/ x.IPAddress \in ips}
        ELSE {}

(* rows.Scan converts the column values the driver hands over into the     *)
(* destination fields; source_systems, a TEXT[] column, is scanned into a  *)
(* plain []string.  The rows whose conversion returns an error, scanErrors, *)
(* are skipped without an error (297-299); which rows convert is decided   *)
(* by the driver, not by this code.                                        *)
getExistingCorrelations(tbl, ls, scanErrors) ==
    {[UserIdentifier  |-> r.UserIdentifier,
      IPAddress       |-> r.IPAddress,
      FirstSeen       |-> r.FirstSeen,
      LastSeen        |-> r.LastSeen,
      ConfidenceScore |-> r.ConfidenceScore,
      SourceSystems   |-> r.SourceSystems,
      CorrelationType |-> "historical"] : r \in QueryRows(tbl, ls) \ scanErrors}

AllKeys == Identities \X Addresses

NoSubmitted == [k \in AllKeys |-> {}]

(* The statement as PostgreSQL executes it: without a unique index on      *)
(* (user_identifier, ip_address) the ON CONFLICT target matches nothing and *)
(* the statement is rejected, leaving the table as it was.                  *)
storeUserCorrelation(tbl, c, constraint) ==
    IF constraint THEN Upsert(tbl, c) ELSE tbl

---------------------------------------------------------------------------
(* LogNormalizer.  A log line is a record [json, members]: json says       *)
(* whether the line is a JSON object, members is the sequence of its       *)
(* members [key, value] in the order of the text, all values strings.  A   *)
(* line that is no JSON object holds its words as members with key "".     *)
(* Of the fields of NormalizedLog the model keeps those the correlation    *)
(* engine reads.                                                           *)

(* The strings of the line's text, in order. *)
RECURSIVE LineText(_)
LineText(ms) ==
    IF ms = <<>> THEN <<>>
    ELSE (IF Head(ms).key = "" THEN <<Head(ms).value>>
          ELSE <<Head(ms).key, Head(ms).value>>) \o LineText(Tail(ms))

(* The strings emailRegex matches, and strings.ToLower on them. *)
EmailTexts == {"u1", "U1", "u2"}

ToLower(str) == IF str = "U1" THEN "u1" ELSE str

(* The strings ipRegex matches, with the four numbers each one holds. *)
IPOctets ==
    ("i1" :> <<192, 168, 1, 100>>) @@ ("i2" :> <<10, 0, 0, 2>>)
    @@ ("lo" :> <<127, 0, 0, 1>>) @@ ("zero" :> <<0, 0, 0, 0>>)
    @@ ("big" :> <<999, 1, 1, 1>>)

IPTexts == DOMAIN IPOctets

(* strings.Contains on the strings of the model. *)
Contains(str, sub) ==
    \/ str = sub
    \/ str = "Microsoft.Cdn/write" /\ sub = "Microsoft.Cdn"
    \/ str = "aws.guardduty" /\ sub = "guardduty"

LineContains(line, sub) ==
    \E n \in 1..Len(LineText(line.members)) :
        Contains(LineText(line.members)[n], sub)

(* json.Unmarshal into a map: the last member of a key wins; ok is FALSE   *)
(* when the line is no JSON object.                                        *)
Unmarshal(line) ==
    IF line.json
    THEN [ok   |-> TRUE,
          data |-> [k \in {line.members[n].key : n \in 1..Len(line.members)} |->
                       LET last == CHOOSE n \in 1..Len(line.members) :
                                      /\ line.members[n].key = k
                                      /\ \A m \in (n + 1)..Len(line.members) :
                                             line.members[m].key # k
                       IN  line.members[last].value]]
    ELSE [ok |-> FALSE, data |-> <<>>]

isValidIP(ip) ==
    /\ ip \in IPTexts
    /\ \A n \in 1..4 : IPOctets[ip][n] <= 255
    /\ IPOctets[ip][1] # 127
    /\ IPOctets[ip] # <<0, 0, 0, 0>>

RECURSIVE ExtractIPsWalk(_, _, _)
ExtractIPsWalk(matches, validIPs, seen) ==
    IF matches = <<>> THEN validIPs
    ELSE IF isValidIP(Head(matches)) /\ Head(matches) \notin seen
         THEN ExtractIPsWalk(Tail(matches), Append(validIPs, Head(matches)),
                             seen \cup {Head(matches)})
         ELSE ExtractIPsWalk(Tail(matches), validIPs, seen)

extractIPs(line) ==
    ExtractIPsWalk(SelectSeq(LineText(line.members), LAMBDA w : w \in IPTexts),
                   <<>>, {})

RECURSIVE ExtractEmailsWalk(_, _, _)
ExtractEmailsWalk(matches, validEmails, seen) ==
    IF matches = <<>> THEN validEmails
    ELSE IF Head(matches) \notin seen
         THEN ExtractEmailsWalk(Tail(matches),
                                Append(validEmails, ToLower(Head(matches))),
                                seen \cup {Head(matches)})
         ELSE ExtractEmailsWalk(Tail(matches), validEmails, seen)

extractEmails(line) ==
    ExtractEmailsWalk(SelectSeq(LineText(line.members),
                                LAMBDA w : w \in EmailTexts),
                      <<>>, {})

(* The value of the first key of keys that data holds, "" without one. *)
RECURSIVE FirstField(_, _)
FirstField(data, keys) ==
    IF keys = <<>> THEN ""
    ELSE IF Head(keys) \in DOMAIN data THEN data[Head(keys)]
         ELSE FirstField(data, Tail(keys))

RECURSIVE IPFields(_, _)
IPFields(data, fields) ==
    IF fields = <<>> THEN <<>>
    ELSE (IF Head(fields) \in DOMAIN data /\ isValidIP(data[Head(fields)])
          THEN <<data[Head(fields)]>> ELSE <<>>) \o IPFields(data, Tail(fields))

extractFromJSON(normalized, data) ==
    [normalized EXCEPT
        !.CompanyCode = FirstField(data, <<"company_code", "companyCode">>),
        !.Host = FirstField(data, <<"host", "reqHost", "Host", "Company_host">>),
        !.IPAddresses = @ \o IPFields(data, <<"clientIP", "cliIP", "client_ip",
                                              "clientIp", "xForwardedFor",
                                              "x-forwarded-for">>)]

(* The words after the first "Host:" up to the next one, and of them the   *)
(* words before the first ",".                                             *)
RECURSIVE UpTo(_, _)
UpTo(ws, stop) ==
    IF ws = <<>> \/ Head(ws) = stop THEN <<>>
    ELSE <<Head(ws)>> \o UpTo(Tail(ws), stop)

RECURSIVE After(_, _)
After(ws, start) ==
    IF ws = <<>> THEN <<>>
    ELSE IF Head(ws) = start THEN Tail(ws)
         ELSE After(Tail(ws), start)

RECURSIVE JoinWords(_)
JoinWords(ws) ==
    IF Len(ws) = 1 THEN Head(ws)
    ELSE Head(ws) \o " " \o JoinWords(Tail(ws))

extractFromText(normalized, line) ==
    IF LineContains(line, "Deep Security")
    THEN LET text == LineText(line.members)
             hostPart == UpTo(After(text, "Host:"), "Host:")
             host == UpTo(hostPart, ",")
         IN  IF /\ \E n \in 1..Len(text) : text[n] = "Host:"
                /\ \E n \in 1..Len(hostPart) : hostPart[n] = ","
                /\ host # <<>>
             THEN [normalized EXCEPT !.Source = "deep_security",
                                     !.Host = JoinWords(host)]
             ELSE [normalized EXCEPT !.Source = "deep_security"]
    ELSE normalized

determineSource(line, parsed) ==
    IF parsed.ok /\ "webaclId" \in DOMAIN parsed.data THEN "aws_waf"
    ELSE IF /\ parsed.ok
            /\ "operationName" \in DOMAIN parsed.data
            /\ Contains(parsed.data["operationName"], "Microsoft.Cdn")
         THEN "azure_waf"
    ELSE IF parsed.ok /\ "streamId" \in DOMAIN parsed.data THEN "akamai_waf"
    ELSE IF parsed.ok /\ "Rule_name" \in DOMAIN parsed.data THEN "deep_security"
    ELSE IF /\ parsed.ok
            /\ "type" \in DOMAIN parsed.data
            /\ Contains(parsed.data["type"], "guardduty")
         THEN "aws_guardduty"
    ELSE IF LineContains(line, "Deep Security") THEN "deep_security"
    ELSE IF LineContains(line, "GuardDuty") THEN "aws_guardduty"
    ELSE IF LineContains(line, "Akamai") THEN "akamai_waf"
    ELSE "unknown"

NormalizeLogAppend(lokiLog) ==
    LET normalized == [Timestamp |-> lokiLog.Timestamp, UserEmails |-> <<>>,
                       IPAddresses |-> <<>>, Source |-> "", CompanyCode |-> "",
                       Host |-> ""]
        parsed == Unmarshal(lokiLog.Line)
        extracted == IF parsed.ok
                     THEN extractFromJSON(normalized, parsed.data)
                     ELSE extractFromText(normalized, lokiLog.Line)
    IN  [extracted EXCEPT
            !.IPAddresses = @ \o extractIPs(lokiLog.Line),
            !.UserEmails = extractEmails(lokiLog.Line),
            !.Source = determineSource(lokiLog.Line, parsed)]

NormalizeLog(lokiLog) ==
    LET normalized == [Timestamp |-> lokiLog.Timestamp, UserEmails |-> <<>>,
                       IPAddresses |-> <<>>, Source |-> "", CompanyCode |-> "",
                       Host |-> ""]
        parsed == Unmarshal(lokiLog.Line)
        extracted == IF parsed.ok
                     THEN extractFromJSON(normalized, parsed.data)
                     ELSE extractFromText(normalized, lokiLog.Line)
    IN  [extracted EXCEPT
            !.IPAddresses = extractIPs(lokiLog.Line),
            !.UserEmails = extractEmails(lokiLog.Line),
            !.Source = determineSource(lokiLog.Line, parsed)]

NormalizeAllSkipEmpty(raw) ==
    SelectSeq([n \in 1..Len(raw) |-> NormalizeLog(raw[n])],
              LAMBDA l : l.UserEmails # <<>> \/ l.IPAddresses # <<>>)

(* The normalizing loop of handleAlertAnalysis: NormalizeLog returns no    *)
(* error, so every raw record is appended.                                 *)
NormalizeAll(raw) == [n \in 1..Len(raw) |-> NormalizeLog(raw[n])]

---------------------------------------------------------------------------
(* The analysis_results table: storeAnalysisResult, getStoredAnalysisResult *)

(* The bundle handleAlertAnalysis assembles; of the enrichment data the    *)
(* correlation statistics.                                                 *)
AnalysisResult(id, ls, cs, score) ==
    [AlertID          |-> id,
     CorrelatedLogs   |-> ls,
     UserCorrelations |-> cs,
     EnrichmentData   |-> [total_logs_analyzed     |-> Len(ls),
                           user_correlations_found |-> Len(cs),
                           correlation_score       |-> score]]

(* encoding/json on a slice: a slice that was never appended to is nil and *)
(* is written as null, and null is read back as a nil slice.               *)
MarshalSlice(sl) ==
    IF sl = <<>> THEN [kind |-> "null"] ELSE [kind |-> "array", items |-> sl]

UnmarshalSlice(j) == IF j.kind = "null" THEN <<>> ELSE j.items

MarshalResult(result) ==
    [alert_id          |-> result.AlertID,
     correlated_logs   |-> MarshalSlice(result.CorrelatedLogs),
     user_correlations |-> MarshalSlice(result.UserCorrelations),
     enrichment_data   |-> [correlation_stats |-> result.EnrichmentData]]

UnmarshalResult(j) ==
    [AlertID          |-> j.alert_id,
     CorrelatedLogs   |-> UnmarshalSlice(j.correlated_logs),
     UserCorrelations |-> UnmarshalSlice(j.user_correlations),
     EnrichmentData   |-> j.enrichment_data.correlation_stats]

storeAnalysisResultDoNothing(tbl, result) ==
    IF \E r \in tbl : r.alert_id = result.AlertID
    THEN tbl
    ELSE tbl \cup {[alert_id    |-> result.AlertID,
                    result_data |-> MarshalResult(result)]}

(* INSERT ... ON CONFLICT (alert_id) DO UPDATE SET result_data; alert_id   *)
(* is declared UNIQUE by createTables.                                     *)
storeAnalysisResult(tbl, result) ==
    {r \in tbl : r.alert_id # result.AlertID}
        \cup {[alert_id    |-> result.AlertID,
               result_data |-> MarshalResult(result)]}

(* SELECT result_data ... WHERE alert_id = $1, the first row scanned;      *)
(* without a row QueryRow.Scan returns sql.ErrNoRows.                      *)
getStoredAnalysisResult(tbl, alertID) ==
    IF \E r \in tbl : r.alert_id = alertID
    THEN [err    |-> FALSE,
          result |-> UnmarshalResult(
                         (CHOOSE r \in tbl : r.alert_id = alertID).result_data)]
    ELSE [err |-> TRUE]

---------------------------------------------------------------------------
(* Parts of the state a specification leaves out *)

NoWorkers == <<>>

InitStoreIdle ==
    /\ workers = NoWorkers
    /\ written = {}

InitAnalysisIdle ==
    /\ alert = ""
    /\ lokiLogs = <<>>
    /\ lokiFailed = FALSE
    /\ analysisResults = {}
    /\ lastResult = <<>>

---------------------------------------------------------------------------
(* SpecScore: calculateConfidenceScore applied to two records *)

ScoreLogs ==
    {[Timestamp |-> t, UserEmails |-> <<>>, IPAddresses |-> <<>>,
      Source |-> "aws_waf", CompanyCode |-> c, Host |-> h] :
        t \in 0..MaxScoreTime, c \in Codes, h \in Hosts}

InitScore ==
    /\ pc = "score"
    /\ logs = <<>>
    /\ groups = <<>>
    /\ emailLog \in {[l EXCEPT !.UserEmails = <<"u1">>] : l \in ScoreLogs}
    /\ ipLog \in {[l EXCEPT !.IPAddresses = <<"i1">>] : l \in ScoreLogs}
    /\ confidence = 0
    /\ userCorrelations = {}
    /\ pending = {}
    /\ existingCorrelations = {}
    /\ allCorrelations = {}
    /\ remerged = <<>>
    /\ table = {}
    /\ keyConstraint = FALSE
    /\ submitted = NoSubmitted
    /\ runs = 0
    /\ correlationScore = 0
    /\ storeFailed = FALSE
    /\ InitStoreIdle
    /\ InitAnalysisIdle

Score ==
    /\ pc = "score"
    /\ confidence' = calculateConfidenceScore(emailLog, ipLog)
    /\ pc' = "scored"
    /\ UNCHANGED <<logs, groups, emailLog, ipLog, userCorrelations, pending,
                   existingCorrelations, allCorrelations, remerged, table,
                   keyConstraint, submitted, runs,
                   correlationScore, storeFailed, storeVars, analysisVars>>

NextScore == Score

SpecScore == InitScore /\ [][NextScore]_vars

---------------------------------------------------------------------------
(* SpecGroup: groupLogsByTime applied to a list of records *)

GroupTimes == {0, 2, 4, 5, 6, 20}

GroupLogs ==
    {[Timestamp |-> t, UserEmails |-> <<>>, IPAddresses |-> <<>>,
      Source |-> s, CompanyCode |-> "", Host |-> ""] :
        t \in GroupTimes, s \in Sources}

InitGroup ==
    /\ pc = "input"
    /\ logs = <<>>
    /\ groups = <<>>
    /\ emailLog = NoLog
    /\ ipLog = NoLog
    /\ confidence = 0
    /\ userCorrelations = {}
    /\ pending = {}
    /\ existingCorrelations = {}
    /\ allCorrelations = {}
    /\ remerged = <<>>
    /\ table = {}
    /\ keyConstraint = FALSE
    /\ submitted = NoSubmitted
    /\ runs = 0
    /\ correlationScore = 0
    /\ storeFailed = FALSE
    /\ InitStoreIdle
    /\ InitAnalysisIdle

AddGroupLog ==
    /\ pc = "input"
    /\ Len(logs) < MaxGroupLogs
    /\ \E l \in GroupLogs : logs' = Append(logs, l)
    /\ UNCHANGED <<pc, groups, emailLog, ipLog, confidence, userCorrelations,
                   pending, existingCorrelations, allCorrelations, remerged,
                   table, keyConstraint, submitted, runs,
                   correlationScore, storeFailed, storeVars, analysisVars>>

Group ==
    /\ pc = "input"
    /\ groups' = groupLogsByTime(logs, GroupWindow * Minute)
    /\ pc' = "grouped"
    /\ UNCHANGED <<logs, emailLog, ipLog, confidence, userCorrelations,
                   pending, existingCorrelations, allCorrelations, remerged,
                   table, keyConstraint, submitted, runs,
                   correlationScore, storeFailed, storeVars, analysisVars>>

NextGroup == AddGroupLog \/ Group

SpecGroup == InitGroup /\ [][NextGroup]_vars

---------------------------------------------------------------------------
(* SpecBuild: buildUserIPCorrelations applied to a list of records *)

BuildTimes == {0, 2, 9}

BuildFields ==
    {<<<<"u1">>, <<>>>>, <<<<>>, <<"i1">>>>, <<<<"u1">>, <<"i1">>>>,
     <<<<"u1", "u2">>, <<"i1", "i2">>>>}

BuildContexts == {<<"", "">>, <<"c1", "">>, <<"", "h1">>, <<"c1", "h1">>}

(* The records at time 0 come from aws_waf, the later ones from            *)
(* deep_security.                                                          *)
BuildLogs ==
    {[Timestamp |-> t, UserEmails |-> f[1], IPAddresses |-> f[2],
      Source |-> IF t = 0 THEN "aws_waf" ELSE "deep_security",
      CompanyCode |-> x[1], Host |-> x[2]] :
        t \in BuildTimes, f \in BuildFields, x \in BuildContexts}

InitBuild ==
    /\ pc = "input"
    /\ logs = <<>>
    /\ groups = <<>>
    /\ emailLog = NoLog
    /\ ipLog = NoLog
    /\ confidence = 0
    /\ userCorrelations = {}
    /\ pending = {}
    /\ existingCorrelations = {}
    /\ allCorrelations = {}
    /\ remerged = <<>>
    /\ table = {}
    /\ keyConstraint = FALSE
    /\ submitted = NoSubmitted
    /\ runs = 0
    /\ correlationScore = 0
    /\ storeFailed = FALSE
    /\ InitStoreIdle
    /\ InitAnalysisIdle

AddBuildLog ==
    /\ pc = "input"
    /\ Len(logs) < MaxBuildLogs
    /\ \E l \in BuildLogs : logs' = Append(logs, l)
    /\ UNCHANGED <<pc, groups, emailLog, ipLog, confidence, userCorrelations,
                   pending, existingCorrelations, allCorrelations, remerged,
                   table, keyConstraint, submitted, runs,
                   correlationScore, storeFailed, storeVars, analysisVars>>

Build ==
    /\ pc = "input"
    /\ userCorrelations' = buildUserIPCorrelations(logs)
    /\ pc' = "built"
    /\ UNCHANGED <<logs, groups, emailLog, ipLog, confidence, pending,
                   existingCorrelations, allCorrelations, remerged, table,
                   keyConstraint, submitted, runs,
                   correlationScore, storeFailed, storeVars, analysisVars>>

NextBuild == AddBuildLog \/ Build

SpecBuild == InitBuild /\ [][NextBuild]_vars

---------------------------------------------------------------------------
(* SpecMerge: mergeCorrelations applied to a fresh and a historical slice *)

FreshShapes ==
    {[FirstSeen |-> 0, LastSeen |-> 0, ConfidenceScore |-> 9000,
      SourceSystems |-> {"aws_waf"}, CorrelationType |-> "direct"],
     [FirstSeen |-> 3, LastSeen |-> 3, ConfidenceScore |-> 9000,
      SourceSystems |-> {"deep_security"}, CorrelationType |-> "direct"],
     [FirstSeen |-> 3, LastSeen |-> 0, ConfidenceScore |-> 7000,
      SourceSystems |-> {"aws_waf", "deep_security"},
      CorrelationType |-> "time_proximity"],
     [FirstSeen |-> 0, LastSeen |-> 0, ConfidenceScore |-> 10000,
      SourceSystems |-> {"deep_security"}, CorrelationType |-> "time_proximity"],
     [FirstSeen |-> 0, LastSeen |-> 3, ConfidenceScore |-> 6000,
      SourceSystems |-> {"aws_waf"}, CorrelationType |-> "time_proximity"]}

StoredShapes ==
    {[FirstSeen |-> 0, LastSeen |-> 0, ConfidenceScore |-> 9000,
      SourceSystems |-> {"aws_waf"}],
     [FirstSeen |-> 0, LastSeen |-> 3, ConfidenceScore |-> 8000,
      SourceSystems |-> {"deep_security"}],
     [FirstSeen |-> 3, LastSeen |-> 9, ConfidenceScore |-> 7000,
      SourceSystems |-> {"aws_waf", "deep_security"}],
     [FirstSeen |-> 3, LastSeen |-> 3, ConfidenceScore |-> 10000,
      SourceSystems |-> {"akamai_waf"}]}

FreshRows ==
    {[UserIdentifier |-> k[1], IPAddress |-> k[2], FirstSeen |-> x.FirstSeen,
      LastSeen |-> x.LastSeen, ConfidenceScore |-> x.ConfidenceScore,
      SourceSystems |-> x.SourceSystems, CorrelationType |-> x.CorrelationType] :
        k \in AllKeys, x \in FreshShapes}

HistoricalRows ==
    {[UserIdentifier |-> k[1], IPAddress |-> k[2], FirstSeen |-> x.FirstSeen,
      LastSeen |-> x.LastSeen, ConfidenceScore |-> x.ConfidenceScore,
      SourceSystems |-> x.SourceSystems, CorrelationType |-> "historical"] :
        k \in AllKeys, x \in StoredShapes}

InitMerge ==
    /\ pc = "input"
    /\ logs = <<>>
    /\ groups = <<>>
    /\ emailLog = NoLog
    /\ ipLog = NoLog
    /\ confidence = 0
    /\ userCorrelations = {}
    /\ pending = {}
    /\ existingCorrelations = {}
    /\ allCorrelations = {}
    /\ remerged = <<>>
    /\ table = {}
    /\ keyConstraint = FALSE
    /\ submitted = NoSubmitted
    /\ runs = 0
    /\ correlationScore = 0
    /\ storeFailed = FALSE
    /\ InitStoreIdle
    /\ InitAnalysisIdle

AddFresh ==
    /\ pc = "input"
    /\ Cardinality(userCorrelations) < MaxMergeRows
    /\ \E c \in FreshRows :
           /\ Key(c) \notin Keys(userCorrelations)
           /\ userCorrelations' = userCorrelations \cup {c}
    /\ UNCHANGED <<pc, logs, groups, emailLog, ipLog, confidence, pending,
                   existingCorrelations, allCorrelations, remerged, table,
                   keyConstraint, submitted, runs,
                   correlationScore, storeFailed, storeVars, analysisVars>>

AddHistorical ==
    /\ pc = "input"
    /\ Cardinality(existingCorrelations) < MaxMergeRows
    /\ \E c \in HistoricalRows :
           /\ Key(c) \notin Keys(existingCorrelations)
           /\ existingCorrelations' = existingCorrelations \cup {c}
    /\ UNCHANGED <<pc, logs, groups, emailLog, ipLog, confidence,
                   userCorrelations, pending, allCorrelations, remerged, table,
                   keyConstraint, submitted, runs,
                   correlationScore, storeFailed, storeVars, analysisVars>>

Merge ==
    /\ pc = "input"
    /\ allCorrelations' = mergeCorrelations(userCorrelations, existingCorrelations)
    /\ pc' = "merged"
    /\ UNCHANGED <<logs, groups, emailLog, ipLog, confidence, userCorrelations,
                   pending, existingCorrelations, remerged, table,
                   keyConstraint, submitted, runs,
                   correlationScore, storeFailed, storeVars, analysisVars>>

Remerge ==
    /\ pc = "merged"
    /\ remerged' = <<mergeCorrelations(allCorrelations, allCorrelations),
                     mergeCorrelations(allCorrelations, {}),
                     mergeCorrelations({}, allCorrelations)>>
    /\ pc' = "remerged"
    /\ UNCHANGED <<logs, groups, emailLog, ipLog, confidence, userCorrelations,
                   pending, existingCorrelations, allCorrelations, table,
                   keyConstraint, submitted, runs,
                   correlationScore, storeFailed, storeVars, analysisVars>>

NextMerge == AddFresh \/ AddHistorical \/ Merge \/ Remerge

SpecMerge == InitMerge /\ [][NextMerge]_vars

---------------------------------------------------------------------------
(* SpecAggregate: calculateCorrelationScore applied to records and a final *)
(* correlation slice                                                       *)

AggregateSources == {"aws_waf", "deep_security", "akamai_waf"}

AggregateLogs == {[NoLog EXCEPT !.Source = x] : x \in AggregateSources}

AggregateConfidences == {6000, 7000, 7999, 8000, 9000}

AggregateRows ==
    {[UserIdentifier |-> k[1], IPAddress |-> k[2], FirstSeen |-> 0,
      LastSeen |-> 0, ConfidenceScore |-> x, SourceSystems |-> {"aws_waf"},
      CorrelationType |-> "time_proximity"] :
        k \in AllKeys, x \in AggregateConfidences}

InitAggregate ==
    /\ pc = "input"
    /\ logs = <<>>
    /\ groups = <<>>
    /\ emailLog = NoLog
    /\ ipLog = NoLog
    /\ confidence = 0
    /\ userCorrelations = {}
    /\ pending = {}
    /\ existingCorrelations = {}
    /\ allCorrelations = {}
    /\ remerged = <<>>
    /\ table = {}
    /\ keyConstraint = FALSE
    /\ submitted = NoSubmitted
    /\ runs = 0
    /\ correlationScore = 0
    /\ storeFailed = FALSE
    /\ InitStoreIdle
    /\ InitAnalysisIdle

AddAggregateLog ==
    /\ pc = "input"
    /\ Len(logs) < MaxAggregateLogs
    /\ \E l \in AggregateLogs : logs' = Append(logs, l)
    /\ UNCHANGED <<pc, groups, emailLog, ipLog, confidence, userCorrelations,
                   pending, existingCorrelations, allCorrelations, remerged,
                   table, keyConstraint, submitted, runs,
                   correlationScore, storeFailed, storeVars, analysisVars>>

AddAggregateRow ==
    /\ pc = "input"
    /\ Cardinality(allCorrelations) < MaxAggregateRows
    /\ \E c \in AggregateRows :
           /\ Key(c) \notin Keys(allCorrelations)
           /\ allCorrelations' = allCorrelations \cup {c}
    /\ UNCHANGED <<pc, logs, groups, emailLog, ipLog, confidence,
                   userCorrelations, pending, existingCorrelations, remerged,
                   table, keyConstraint, submitted, runs,
                   correlationScore, storeFailed, storeVars, analysisVars>>

Aggregate ==
    /\ pc = "input"
    /\ \E o \in Orders(allCorrelations) :
           correlationScore' = calculateCorrelationScore(logs, o)
    /\ pc' = "aggregated"
    /\ UNCHANGED <<logs, groups, emailLog, ipLog, confidence, userCorrelations,
                   pending, existingCorrelations, allCorrelations, remerged,
                   table, keyConstraint, submitted, runs,
                   storeFailed, storeVars, analysisVars>>

NextAggregate == AddAggregateLog \/ AddAggregateRow \/ Aggregate

SpecAggregate == InitAggregate /\ [][NextAggregate]_vars

---------------------------------------------------------------------------
(* SpecStore: the store loops of concurrent analysis runs.  The asynq      *)
(* server runs handleAlertAnalysis on several workers at once, all on one  *)
(* *sql.DB; each storeUserCorrelation is one statement, which the database *)
(* executes atomically.                                                    *)

StoreKeys == {<<"u1", "i1">>, <<"u2", "i1">>}

StoreRows ==
    {c \in FreshRows : Key(c) \in StoreKeys /\ c.FirstSeen = 0}

StoreBatches == {b \in SUBSET StoreRows : UniqueKeys(b)}

InitStore ==
    /\ pc = "storing"
    /\ logs = <<>>
    /\ groups = <<>>
    /\ emailLog = NoLog
    /\ ipLog = NoLog
    /\ confidence = 0
    /\ userCorrelations = {}
    /\ pending = {}
    /\ existingCorrelations = {}
    /\ allCorrelations = {}
    /\ remerged = <<>>
    /\ table = {}
    /\ keyConstraint \in BOOLEAN
    /\ submitted = NoSubmitted
    /\ runs = 0
    /\ correlationScore = 0
    /\ storeFailed = FALSE
    /\ workers \in [1..MaxWorkers -> StoreBatches]
    /\ written = {}
    /\ InitAnalysisIdle

(* One pass of the store loop of worker w whose statement reaches the      *)
(* database; the caller drops the returned error.                          *)
WorkerStore(w) ==
    /\ \E c \in workers[w] :
           /\ table' = storeUserCorrelation(table, c, keyConstraint)
           /\ written' = written \cup {c}
           /\ workers' = [workers EXCEPT ![w] = @ \ {c}]
    /\ UNCHANGED <<pc, logs, groups, emailLog, ipLog, confidence,
                   userCorrelations, pending, existingCorrelations,
                   allCorrelations, remerged, keyConstraint, submitted, runs,
                   correlationScore, storeFailed, analysisVars>>

(* One pass of the store loop of worker w while the database cannot be     *)
(* reached.                                                                *)
WorkerStoreUnreachable(w) ==
    /\ \E c \in workers[w] : workers' = [workers EXCEPT ![w] = @ \ {c}]
    /\ UNCHANGED <<pc, logs, groups, emailLog, ipLog, confidence,
                   userCorrelations, pending, existingCorrelations,
                   allCorrelations, remerged, table, keyConstraint, submitted,
                   runs, correlationScore, storeFailed, written, analysisVars>>

NextStore ==
    \E w \in 1..MaxWorkers : WorkerStore(w) \/ WorkerStoreUnreachable(w)

SpecStore == InitStore /\ [][NextStore]_vars

---------------------------------------------------------------------------
(* SpecNormalize: raw records, normalized and handed to the builder *)

Member(k, v) == [key |-> k, value |-> v]

ClientLines ==
    {[json |-> TRUE,
      members |-> <<Member("clientIP", a), Member("user_email", e)>>] :
        a \in IPTexts, e \in EmailTexts}

OtherLines ==
    {[json |-> TRUE,
      members |-> <<Member("clientIP", "i2"), Member("user_email", "u2"),
                    Member("company_code", "c1"), Member("host", "h1"),
                    Member("webaclId", "acl")>>],
     [json |-> TRUE,
      members |-> <<Member("user_email", "U1"), Member("reporter", "u1"),
                    Member("cliIP", "lo"), Member("type", "aws.guardduty")>>],
     [json |-> TRUE,
      members |-> <<Member("owner", "U1"), Member("user_email", "U1"),
                    Member("client_ip", "big"), Member("msg", "i1"),
                    Member("operationName", "Microsoft.Cdn/write")>>],
     [json |-> FALSE,
      members |-> <<Member("", "Deep Security"), Member("", "Host:"),
                    Member("", "h1"), Member("", ","), Member("", "u2"),
                    Member("", "i1")>>],
     [json |-> FALSE, members |-> <<Member("", "hello")>>]}

LokiTimes == {0, 2}

LokiLogs ==
    {[Timestamp |-> t, Line |-> l] :
        t \in LokiTimes, l \in ClientLines \cup OtherLines}

InitNormalize ==
    /\ pc = "input"
    /\ logs = <<>>
    /\ groups = <<>>
    /\ emailLog = NoLog
    /\ ipLog = NoLog
    /\ confidence = 0
    /\ userCorrelations = {}
    /\ pending = {}
    /\ existingCorrelations = {}
    /\ allCorrelations = {}
    /\ remerged = <<>>
    /\ table = {}
    /\ keyConstraint = FALSE
    /\ submitted = NoSubmitted
    /\ runs = 0
    /\ correlationScore = 0
    /\ storeFailed = FALSE
    /\ InitStoreIdle
    /\ InitAnalysisIdle

AddLokiLog ==
    /\ pc = "input"
    /\ Len(lokiLogs) < MaxLokiLogs
    /\ \E l \in LokiLogs : lokiLogs' = Append(lokiLogs, l)
    /\ UNCHANGED <<pc, logs, groups, emailLog, ipLog, confidence,
                   userCorrelations, pending, existingCorrelations,
                   allCorrelations, remerged, table, keyConstraint, submitted,
                   runs, correlationScore, storeFailed, storeVars, alert,
                   lokiFailed, analysisResults, lastResult>>

NormalizeLogs ==
    /\ pc = "input"
    /\ logs' = NormalizeAll(lokiLogs)
    /\ pc' = "normalized"
    /\ UNCHANGED <<groups, emailLog, ipLog, confidence, userCorrelations,
                   pending, existingCorrelations, allCorrelations, remerged,
                   table, keyConstraint, submitted, runs, correlationScore,
                   storeFailed, storeVars, analysisVars>>

BuildNormalized ==
    /\ pc = "normalized"
    /\ userCorrelations' = buildUserIPCorrelations(logs)
    /\ pc' = "built"
    /\ UNCHANGED <<logs, groups, emailLog, ipLog, confidence, pending,
                   existingCorrelations, allCorrelations, remerged, table,
                   keyConstraint, submitted, runs, correlationScore,
                   storeFailed, storeVars, analysisVars>>

NextNormalize == AddLokiLog \/ NormalizeLogs \/ BuildNormalized

SpecNormalize == InitNormalize /\ [][NextNormalize]_vars

---------------------------------------------------------------------------
(* Spec: analysis runs through CorrelateLogsForAlert against the store *)

RunTimes == {0, 3}

RunFields ==
    {<<<<"u1">>, <<>>>>, <<<<>>, <<"i1">>>>, <<<<"u1">>, <<"i1">>>>,
     <<<<"u2">>, <<"i1">>>>}

RunContexts == {<<"", "">>, <<"c1", "h1">>}

RunSource(t) == IF t = 0 THEN "aws_waf" ELSE "deep_security"

RunLogs ==
    {l \in {[Timestamp |-> t, UserEmails |-> f[1], IPAddresses |-> f[2],
             Source |-> RunSource(t), CompanyCode |-> x[1], Host |-> x[2]] :
               t \in RunTimes, f \in RunFields, x \in RunContexts} :
        l.CompanyCode # "" => l.UserEmails = <<"u1">> /\ l.IPAddresses = <<"i1">>}

(* The table a process finds: createTables issues CREATE TABLE IF NOT      *)
(* EXISTS without a unique index on (user_identifier, ip_address), so the  *)
(* table has one only if it existed, with one, before the process started. *)
Init ==
    /\ pc = "idle"
    /\ logs = <<>>
    /\ groups = <<>>
    /\ emailLog = NoLog
    /\ ipLog = NoLog
    /\ confidence = 0
    /\ userCorrelations = {}
    /\ pending = {}
    /\ existingCorrelations = {}
    /\ allCorrelations = {}
    /\ remerged = <<>>
    /\ table = {}
    /\ keyConstraint \in BOOLEAN
    /\ submitted = NoSubmitted
    /\ runs = 0
    /\ correlationScore = 0
    /\ storeFailed = FALSE
    /\ InitStoreIdle
    /\ InitAnalysisIdle

(* CorrelateLogsForAlert up to the store loop: the builder has run. *)
StartRun ==
    /\ pc = "idle"
    /\ runs < MaxRuns
    /\ \E n \in 0..MaxRunLogs :
           \E ls \in [1..n -> RunLogs] :
               /\ logs' = ls
               /\ userCorrelations' = buildUserIPCorrelations(ls)
               /\ pending' = buildUserIPCorrelations(ls)
    /\ pc' = "storing"
    /\ runs' = runs + 1
    /\ storeFailed' = FALSE
    /\ UNCHANGED <<groups, emailLog, ipLog, confidence, existingCorrelations,
                   allCorrelations, remerged, table, keyConstraint, submitted,
                   correlationScore, storeVars, analysisVars>>

(* One pass of the store loop whose statement reaches the database; the    *)
(* caller drops the returned error.                                        *)
StoreExecuted ==
    /\ pc = "storing"
    /\ \E c \in pending :
           /\ table' = storeUserCorrelation(table, c, keyConstraint)
           /\ submitted' = [submitted EXCEPT ![Key(c)] = @ \cup c.SourceSystems]
           /\ pending' = pending \ {c}
    /\ storeFailed' = (storeFailed \/ ~ keyConstraint)
    /\ UNCHANGED <<pc, logs, groups, emailLog, ipLog, confidence,
                   userCorrelations, existingCorrelations, allCorrelations,
                   remerged, keyConstraint, runs,
                   correlationScore, storeVars, analysisVars>>

(* One pass of the store loop while the database cannot be reached. *)
StoreUnreachable ==
    /\ pc = "storing"
    /\ \E c \in pending : pending' = pending \ {c}
    /\ storeFailed' = TRUE
    /\ UNCHANGED <<pc, logs, groups, emailLog, ipLog, confidence,
                   userCorrelations, existingCorrelations, allCorrelations,
                   remerged, table, keyConstraint, submitted, runs,
                   correlationScore, storeVars, analysisVars>>

ReadExisting ==
    /\ pc = "storing"
    /\ pending = {}
    /\ \E scanErrors \in SUBSET table :
           existingCorrelations' = getExistingCorrelations(table, logs, scanErrors)
    /\ pc' = "merging"
    /\ UNCHANGED <<logs, groups, emailLog, ipLog, confidence, userCorrelations,
                   pending, allCorrelations, remerged, table, keyConstraint,
                   submitted, runs,
                   correlationScore, storeFailed, storeVars, analysisVars>>

ReadFailsRollback ==
    /\ pc = "storing"
    /\ pending = {}
    /\ \E n \in 1..Len(logs) : EmailsOf(logs[n]) # {} \/ IPsOf(logs[n]) # {}
    /\ pc' = "failed"
    /\ table' = {r \in table : Key(r) \notin Keys(userCorrelations)}
    /\ UNCHANGED <<logs, groups, emailLog, ipLog, confidence, userCorrelations,
                   pending, existingCorrelations, allCorrelations, remerged,
                   keyConstraint, submitted, runs,
                   correlationScore, storeFailed, storeVars, analysisVars>>

ReadFails ==
    /\ pc = "storing"
    /\ pending = {}
    /\ \E n \in 1..Len(logs) : EmailsOf(logs[n]) # {} \/ IPsOf(logs[n]) # {}
    /\ pc' = "failed"
    /\ UNCHANGED <<logs, groups, emailLog, ipLog, confidence, userCorrelations,
                   pending, existingCorrelations, allCorrelations, remerged,
                   table, keyConstraint, submitted, runs,
                   correlationScore, storeFailed, storeVars, analysisVars>>

MergeRun ==
    /\ pc = "merging"
    /\ allCorrelations' = mergeCorrelations(userCorrelations, existingCorrelations)
    /\ \E o \in Orders(mergeCorrelations(userCorrelations, existingCorrelations)) :
           correlationScore' = calculateCorrelationScore(logs, o)
    /\ pc' = "done"
    /\ UNCHANGED <<logs, groups, emailLog, ipLog, confidence, userCorrelations,
                   pending, existingCorrelations, remerged, table,
                   keyConstraint, submitted, runs,
                   storeFailed, storeVars, analysisVars>>

EndRun ==
    /\ pc \in {"done", "failed"}
    /\ pc' = "idle"
    /\ logs' = <<>>
    /\ userCorrelations' = {}
    /\ existingCorrelations' = {}
    /\ allCorrelations' = {}
    /\ correlationScore' = 0
    /\ UNCHANGED <<groups, emailLog, ipLog, confidence, pending, remerged,
                   table, keyConstraint, submitted, runs,
                   storeFailed, storeVars, analysisVars>>

Next ==
    \/ StartRun
    \/ StoreExecuted
    \/ StoreUnreachable
    \/ ReadExisting
    \/ ReadFails
    \/ MergeRun
    \/ EndRun

Spec == Init /\ [][Next]_vars

---------------------------------------------------------------------------
(* SpecAnalysis: handleAlertAnalysis, one task after the other, from the   *)
(* queue to the analysis_results table.  The positions "correlating",      *)
(* "storing" and "merging" lie inside the correlating step, "done" is the  *)
(* point after CorrelateLogsForAlert has returned its result.              *)

AlertIDs == {"a1", "a2"}

(* The lines the log source holds around the time of an alert, in the      *)
(* order it returns them; a query returns the first of them.               *)
AnalysisLines ==
    <<[json |-> TRUE,
       members |-> <<Member("clientIP", "i1"), Member("user_email", "u1")>>],
      [json |-> TRUE,
       members |-> <<Member("user_email", "u2"), Member("webaclId", "acl")>>],
      [json |-> FALSE, members |-> <<Member("", "hello")>>]>>

AnalysisLokiLogs(n) ==
    [i \in 1..n |->
        [Timestamp |-> 0,
         Line |-> AnalysisLines[((i - 1) % Len(AnalysisLines)) + 1]]]

InitAnalysis ==
    /\ pc = "idle"
    /\ logs = <<>>
    /\ groups = <<>>
    /\ emailLog = NoLog
    /\ ipLog = NoLog
    /\ confidence = 0
    /\ userCorrelations = {}
    /\ pending = {}
    /\ existingCorrelations = {}
    /\ allCorrelations = {}
    /\ remerged = <<>>
    /\ table = {}
    /\ keyConstraint \in BOOLEAN
    /\ submitted = NoSubmitted
    /\ runs = 0
    /\ correlationScore = 0
    /\ storeFailed = FALSE
    /\ InitStoreIdle
    /\ InitAnalysisIdle

(* A worker takes a task and decodes its payload. *)
Dequeue ==
    /\ pc = "idle"
    /\ runs < MaxAnalyses
    /\ \E id \in AlertIDs : alert' = id
    /\ pc' = "fetching_logs"
    /\ runs' = runs + 1
    /\ storeFailed' = FALSE
    /\ lokiFailed' = FALSE
    /\ UNCHANGED <<logs, groups, emailLog, ipLog, confidence, userCorrelations,
                   pending, existingCorrelations, allCorrelations, remerged,
                   table, keyConstraint, submitted, correlationScore,
                   storeVars, lokiLogs, analysisResults, lastResult>>

(* The payload of the task is no alert: the handler returns the error. *)
DequeueMalformed ==
    /\ pc = "idle"
    /\ runs < MaxAnalyses
    /\ alert' = ""
    /\ pc' = "failed"
    /\ runs' = runs + 1
    /\ storeFailed' = FALSE
    /\ lokiFailed' = FALSE
    /\ UNCHANGED <<logs, groups, emailLog, ipLog, confidence, userCorrelations,
                   pending, existingCorrelations, allCorrelations, remerged,
                   table, keyConstraint, submitted, correlationScore,
                   storeVars, lokiLogs, analysisResults, lastResult>>

FetchLogs ==
    /\ pc = "fetching_logs"
    /\ \E n \in 0..MaxLokiLogs : lokiLogs' = AnalysisLokiLogs(n)
    /\ pc' = "normalizing"
    /\ UNCHANGED <<logs, groups, emailLog, ipLog, confidence, userCorrelations,
                   pending, existingCorrelations, allCorrelations, remerged,
                   table, keyConstraint, submitted, runs, correlationScore,
                   storeFailed, storeVars, alert, lokiFailed, analysisResults,
                   lastResult>>

FetchFailsFatal ==
    /\ pc = "fetching_logs"
    /\ lokiLogs' = <<>>
    /\ lokiFailed' = TRUE
    /\ pc' = "failed"
    /\ UNCHANGED <<logs, groups, emailLog, ipLog, confidence, userCorrelations,
                   pending, existingCorrelations, allCorrelations, remerged,
                   table, keyConstraint, submitted, runs, correlationScore,
                   storeFailed, storeVars, alert, analysisResults, lastResult>>

(* QueryLogsAroundTime returns an error: logged, and the handler goes on   *)
(* with an empty list.                                                     *)
FetchFails ==
    /\ pc = "fetching_logs"
    /\ lokiLogs' = <<>>
    /\ lokiFailed' = TRUE
    /\ pc' = "normalizing"
    /\ UNCHANGED <<logs, groups, emailLog, ipLog, confidence, userCorrelations,
                   pending, existingCorrelations, allCorrelations, remerged,
                   table, keyConstraint, submitted, runs, correlationScore,
                   storeFailed, storeVars, alert, analysisResults, lastResult>>

NormalizeFetched ==
    /\ pc = "normalizing"
    /\ logs' = NormalizeAll(lokiLogs)
    /\ pc' = "correlating"
    /\ UNCHANGED <<groups, emailLog, ipLog, confidence, userCorrelations,
                   pending, existingCorrelations, allCorrelations, remerged,
                   table, keyConstraint, submitted, runs, correlationScore,
                   storeFailed, storeVars, analysisVars>>

(* CorrelateLogsForAlert up to the store loop: the builder has run. *)
CorrelateBuild ==
    /\ pc = "correlating"
    /\ userCorrelations' = buildUserIPCorrelations(logs)
    /\ pending' = buildUserIPCorrelations(logs)
    /\ pc' = "storing"
    /\ UNCHANGED <<logs, groups, emailLog, ipLog, confidence,
                   existingCorrelations, allCorrelations, remerged, table,
                   keyConstraint, submitted, runs, correlationScore,
                   storeFailed, storeVars, analysisVars>>

(* buildEnrichmentData, the bundle and storeAnalysisResult; the merged     *)
(* correlations come in the order the map iteration gave them.             *)
Persist ==
    /\ pc = "done"
    /\ \E o \in Orders(allCorrelations) :
           LET result == AnalysisResult(alert, logs, o, correlationScore)
           IN  /\ analysisResults' = storeAnalysisResult(analysisResults, result)
               /\ lastResult' =
                      (alert :> [result |-> result,
                                 writes |-> IF alert \in DOMAIN lastResult
                                            THEN lastResult[alert].writes + 1
                                            ELSE 1]) @@ lastResult
    /\ pc' = "completed"
    /\ UNCHANGED <<logs, groups, emailLog, ipLog, confidence, userCorrelations,
                   pending, existingCorrelations, allCorrelations, remerged,
                   table, keyConstraint, submitted, runs, correlationScore,
                   storeFailed, storeVars, alert, lokiLogs, lokiFailed>>

(* storeAnalysisResult returns an error: the handler returns it. *)
PersistFails ==
    /\ pc = "done"
    /\ pc' = "failed"
    /\ UNCHANGED <<logs, groups, emailLog, ipLog, confidence, userCorrelations,
                   pending, existingCorrelations, allCorrelations, remerged,
                   table, keyConstraint, submitted, runs, correlationScore,
                   storeFailed, storeVars, analysisVars>>

(* The handler has returned; the worker is free for the next task. *)
Finish ==
    /\ pc \in {"completed", "failed"}
    /\ pc' = "idle"
    /\ logs' = <<>>
    /\ lokiLogs' = <<>>
    /\ userCorrelations' = {}
    /\ existingCorrelations' = {}
    /\ allCorrelations' = {}
    /\ correlationScore' = 0
    /\ UNCHANGED <<groups, emailLog, ipLog, confidence, pending, remerged,
                   table, keyConstraint, submitted, runs, storeFailed,
                   storeVars, alert, lokiFailed, analysisResults, lastResult>>

NextAnalysis ==
    \/ Dequeue
    \/ DequeueMalformed
    \/ FetchLogs
    \/ FetchFails
    \/ NormalizeFetched
    \/ CorrelateBuild
    \/ StoreExecuted
    \/ StoreUnreachable
    \/ ReadExisting
    \/ ReadFails
    \/ MergeRun
    \/ Persist
    \/ PersistFails
    \/ Finish

SpecAnalysis == InitAnalysis /\ [][NextAnalysis]_vars

(* The handler moves on from the position it is at: none of its steps      *)
(* waits for another task, and every call into the log source or the store *)
(* returns, with or without an error.                                      *)
HandlerStep ==
    \/ pc = "normalizing" /\ pc' = "correlating"
    \/ pc = "correlating" /\ pc' = "storing"
    \/ pc = "storing" /\ pending = {} /\ pc' \in {"merging", "failed"}
    \/ pc = "merging" /\ pc' = "done"
    \/ pc = "done" /\ pc' \in {"completed", "failed"}

StoreStep == StoreExecuted \/ StoreUnreachable

SpecAnalysisFair ==
    SpecAnalysis /\ WF_pc(HandlerStep) /\ WF_vars(StoreStep)

---------------------------------------------------------------------------
(* Helpers of the properties *)

Abs(x) == IF x < 0 THEN -x ELSE x

Min(a, b) == IF a <= b THEN a ELSE b

RECURSIVE Flatten(_)
Flatten(ss) == IF ss = <<>> THEN <<>> ELSE Head(ss) \o Flatten(Tail(ss))

Stamps(ls) == [n \in 1..Len(ls) |-> ls[n].Timestamp]

---------------------------------------------------------------------------
(* C1: for every record with at least one identity and one address, the    *)
(* output of buildUserIPCorrelations contains, for each (identity,         *)
(* address) pair of the record, a correlation with method direct and       *)
(* confidence exactly 0.9.                                                 *)
C1_DirectForEveryPair ==
    pc = "built" =>
        \A n \in 1..Len(logs) :
            \A email \in EmailsOf(logs[n]), ip \in IPsOf(logs[n]) :
                \E c \in userCorrelations :
                    /\ Key(c) = <<email, ip>>
                    /\ c.CorrelationType = "direct"
                    /\ c.ConfidenceScore = 9000

---------------------------------------------------------------------------
C2_SameGroup(gs, a, b) ==
    \E g \in 1..Len(gs) :
        \E m, n \in 1..Len(gs[g]) : gs[g][m] = a /\ gs[g][n] = b

C2_CandidateScores(ls, gs, k) ==
    {9000 : n \in {m \in 1..Len(ls) :
                      k[1] \in EmailsOf(ls[m]) /\ k[2] \in IPsOf(ls[m])}}
    \cup
    {calculateConfidenceScore(ls[m], ls[n]) :
        <<m, n>> \in {p \in (1..Len(ls)) \X (1..Len(ls)) :
                        /\ k[1] \in EmailsOf(ls[p[1]])
                        /\ k[2] \in IPsOf(ls[p[2]])
                        /\ C2_SameGroup(gs, ls[p[1]], ls[p[2]])}}

(* C2: the output of buildUserIPCorrelations holds at most one correlation *)
(* per (identity, address) key, and the confidence of the kept correlation *)
(* is the maximum confidence over all candidates, direct and               *)
(* time_proximity, generated for that key.                                 *)
C2_OnePerKeyWithMaxConfidence ==
    pc = "built" =>
        /\ UniqueKeys(userCorrelations)
        /\ \A k \in AllKeys :
               LET scores == C2_CandidateScores(
                                 logs, groupLogsByTime(logs, 5 * Minute), k)
               IN  IF scores = {} THEN k \notin Keys(userCorrelations)
                   ELSE /\ k \in Keys(userCorrelations)
                        /\ Lookup(userCorrelations, k).ConfidenceScore \in scores
                        /\ \A x \in scores :
                               x <= Lookup(userCorrelations, k).ConfidenceScore

C2_Witness ==
    /\ pc = "built"
    /\ Len(logs) = 2
    /\ \E c \in userCorrelations :
           /\ Key(c) = <<"u1", "i1">>
           /\ c.ConfidenceScore = 9000
           /\ c.CorrelationType = "direct"
           /\ C2_CandidateScores(logs, groupLogsByTime(logs, 5 * Minute),
                                 <<"u1", "i1">>) = {7000, 8000, 9000}

---------------------------------------------------------------------------
C3_GapBonus(gap) ==
    IF gap <= 1 THEN 3000 ELSE IF gap <= 5 THEN 2000
    ELSE IF gap <= 15 THEN 1000 ELSE 0

C3_Expected(a, b) ==
    LET gap == Abs(a.Timestamp - b.Timestamp)
        company == IF a.CompanyCode # "" /\ b.CompanyCode # ""
                      /\ a.CompanyCode = b.CompanyCode THEN 2000 ELSE 0
        host == IF a.Host # "" /\ b.Host # "" /\ a.Host = b.Host
                THEN 1000 ELSE 0
    IN  Min(10000, FAdd(FAdd(FAdd(5000, C3_GapBonus(gap)), company), host))

---------------------------------------------------------------------------
C4_Ascending(ls) == \A n \in 1..(Len(ls) - 1) : ls[n].Timestamp <= ls[n + 1].Timestamp

(* C4: groupLogsByTime walks the records in ascending timestamp order; a   *)
(* record joins the current group exactly when its timestamp minus that of *)
(* the group's first record is at most the window, otherwise it opens a    *)
(* new group; timestamps 0, 2, 4, 20 with 5 minutes give [0,2,4] and [20]. *)
C4_AnchorRule ==
    pc = "grouped" =>
        LET flat == Flatten(groups)
        IN  /\ Len(flat) = Len(logs)
            /\ C4_Ascending(flat)
            /\ \A l \in GroupLogs :
                   Cardinality({n \in 1..Len(flat) : flat[n] = l})
                       = Cardinality({n \in 1..Len(logs) : logs[n] = l})
            /\ \A g \in 1..Len(groups) :
                   /\ Len(groups[g]) > 0
                   /\ \A n \in 1..Len(groups[g]) :
                          groups[g][n].Timestamp - groups[g][1].Timestamp
                              <= 5 * Minute
                   /\ g > 1 =>
                          groups[g][1].Timestamp - groups[g - 1][1].Timestamp
                              > 5 * Minute
            /\ (Stamps(logs) = <<0, 2, 4, 20>> =>
                   /\ Len(groups) = 2
                   /\ Stamps(groups[1]) = <<0, 2, 4>>
                   /\ Stamps(groups[2]) = <<20>>)

C4_Witness ==
    /\ pc = "grouped"
    /\ Stamps(logs) = <<4, 20, 0, 6>>
    /\ Len(groups) = 3
    /\ Stamps(groups[1]) = <<0, 4>>
    /\ Stamps(groups[2]) = <<6>>

---------------------------------------------------------------------------
(* C5: for every key present in both the fresh and the historical set,     *)
(* mergeCorrelations yields one correlation whose confidence is the        *)
(* maximum of the two and whose sources are the union of both sides'       *)
(* sources; fresh 0.6 merged with historical 0.8 gives 0.8.                *)
C5_MaxAndUnion ==
    pc \in {"merged", "remerged"} =>
        \A k \in Keys(userCorrelations) \cap Keys(existingCorrelations) :
            LET f == Lookup(userCorrelations, k)
                h == Lookup(existingCorrelations, k)
                out == {c \in allCorrelations : Key(c) = k}
            IN  /\ Cardinality(out) = 1
                /\ \A c \in out :
                       /\ c.ConfidenceScore >= f.ConfidenceScore
                       /\ c.ConfidenceScore >= h.ConfidenceScore
                       /\ c.ConfidenceScore \in {f.ConfidenceScore, h.ConfidenceScore}
                       /\ c.SourceSystems = f.SourceSystems \cup h.SourceSystems
                       /\ (f.ConfidenceScore = 6000 /\ h.ConfidenceScore = 8000
                              => c.ConfidenceScore = 8000)

C5_Witness ==
    /\ pc = "merged"
    /\ \E f \in userCorrelations, h \in existingCorrelations, c \in allCorrelations :
           /\ Key(f) = Key(h) /\ Key(c) = Key(f)
           /\ f.ConfidenceScore = 6000 /\ f.SourceSystems = {"aws_waf"}
           /\ h.ConfidenceScore = 8000 /\ h.SourceSystems = {"deep_security"}
           /\ c.ConfidenceScore = 8000
           /\ c.SourceSystems = {"aws_waf", "deep_security"}

---------------------------------------------------------------------------
C6_Rank(m) == IF m = "direct" THEN 3 ELSE IF m = "time_proximity" THEN 2 ELSE 1

(* C6: when a fresh correlation is merged with a stored correlation of the *)
(* same key, the merged correlation carries the method of the side with    *)
(* the higher confidence, and on equal confidence direct is preferred over *)
(* time_proximity, which is preferred over historical.                     *)
C6_MethodOfStrongerSide ==
    pc \in {"merged", "remerged"} =>
        \A k \in Keys(userCorrelations) \cap Keys(existingCorrelations) :
            LET f == Lookup(userCorrelations, k)
                h == Lookup(existingCorrelations, k)
                c == Lookup(allCorrelations, k)
            IN  c.CorrelationType =
                    IF f.ConfidenceScore > h.ConfidenceScore THEN f.CorrelationType
                    ELSE IF h.ConfidenceScore > f.ConfidenceScore
                         THEN h.CorrelationType
                    ELSE IF C6_Rank(f.CorrelationType) >= C6_Rank(h.CorrelationType)
                         THEN f.CorrelationType ELSE h.CorrelationType

---------------------------------------------------------------------------
(* C7: the merger is idempotent: for the final set F of a merge, merging F *)
(* with F, F with the empty set and the empty set with F each give F       *)
(* again, with the same confidence, sources, method and timestamps per key. *)
C7_MergeIdempotent ==
    pc = "remerged" =>
        /\ remerged[1] = allCorrelations
        /\ remerged[2] = allCorrelations
        /\ remerged[3] = allCorrelations

C7_Witness ==
    /\ pc = "remerged"
    /\ Cardinality(allCorrelations) = 3
    /\ \E k \in Keys(userCorrelations) \cap Keys(existingCorrelations) :
           /\ Lookup(userCorrelations, k).ConfidenceScore
                  > Lookup(existingCorrelations, k).ConfidenceScore
           /\ ~ (Lookup(userCorrelations, k).SourceSystems
                     \subseteq Lookup(existingCorrelations, k).SourceSystems)
    /\ remerged[1] = allCorrelations

---------------------------------------------------------------------------
(* C8: every correlation in the output of buildUserIPCorrelations and in   *)
(* the final set returned by CorrelateLogsForAlert has first_seen no later *)
(* than last_seen.                                                         *)
C8_FirstSeenBeforeLastSeen ==
    \A c \in userCorrelations \cup allCorrelations : c.FirstSeen <= c.LastSeen

---------------------------------------------------------------------------
(* C9: every correlation produced by buildUserIPCorrelations, and every    *)
(* correlation returned by mergeCorrelations while the stored confidences  *)
(* lie in [0, 1], has a confidence in [0.0, 1.0].                          *)
C9_ConfidenceInUnitInterval ==
    /\ \A c \in userCorrelations :
           c.ConfidenceScore >= 0 /\ c.ConfidenceScore <= 10000
    /\ (\A r \in table : r.ConfidenceScore >= 0 /\ r.ConfidenceScore <= 10000)
           => \A c \in allCorrelations :
                  c.ConfidenceScore >= 0 /\ c.ConfidenceScore <= 10000

C9_Witness ==
    /\ pc = "done"
    /\ \E n \in 1..Len(logs) :
           /\ logs[n].UserEmails = <<"u1">> /\ logs[n].IPAddresses = <<"i1">>
           /\ logs[n].CompanyCode = "c1" /\ logs[n].Host = "h1"
    /\ \E c \in userCorrelations :
           /\ Key(c) = <<"u1", "i1">>
           /\ c.CorrelationType = "time_proximity"
           /\ c.ConfidenceScore = 10000
    /\ \E c \in allCorrelations :
           /\ Key(c) = <<"u1", "i1">>
           /\ c.ConfidenceScore = 10000

---------------------------------------------------------------------------
(* C10: the evidence sources of a key only grow: after any sequence of     *)
(* store upserts and merges for one key, the stored source set and the     *)
(* merged source set each contain every source of every correlation        *)
(* written or merged so far for that key.                                  *)
C10_SourcesOnlyGrow ==
    /\ \A k \in AllKeys :
           submitted[k] # {} =>
               /\ k \in Keys(table)
               /\ submitted[k] \subseteq Lookup(table, k).SourceSystems
    /\ pc = "done" =>
           \A c \in allCorrelations :
               \A x \in userCorrelations \cup existingCorrelations :
                   Key(x) = Key(c) => x.SourceSystems \subseteq c.SourceSystems

---------------------------------------------------------------------------
C11_Written == CHOOSE c \in pending : c \notin pending'

C11_RowAfter(old, c) ==
    [UserIdentifier  |-> c.UserIdentifier,
     IPAddress       |-> c.IPAddress,
     FirstSeen       |-> old.FirstSeen,
     LastSeen        |-> IF c.LastSeen > old.LastSeen THEN c.LastSeen ELSE old.LastSeen,
     ConfidenceScore |-> IF c.ConfidenceScore > old.ConfidenceScore
                         THEN c.ConfidenceScore ELSE old.ConfidenceScore,
     SourceSystems   |-> old.SourceSystems \cup c.SourceSystems]

(* C11: storeUserCorrelation upserts by (identity, address): after a write  *)
(* the store holds exactly one row for the written key and at most one row *)
(* per key, and a write to a key that is already stored leaves that row    *)
(* with the later of the two last_seen timestamps, the higher of the two   *)
(* confidences and the union of the two source sets.                       *)
C11_UpsertByKey ==
    [][StoreExecuted =>
          LET c == C11_Written
              k == Key(c)
          IN  /\ UniqueKeys(table')
              /\ k \in Keys(table')
              /\ k \in Keys(table) =>
                     Lookup(table', k) = C11_RowAfter(Lookup(table, k), c)]_vars

---------------------------------------------------------------------------
(* C13: getExistingCorrelations returns every stored correlation whose     *)
(* identity is among the identities of the given records or whose address  *)
(* is among their addresses (inclusive or), and no other stored            *)
(* correlation.                                                            *)
C13_InclusiveOr ==
    pc = "merging" =>
        /\ \A r \in table :
               (\/ \E n \in 1..Len(logs) : r.UserIdentifier \in EmailsOf(logs[n])
                \/ \E n \in 1..Len(logs) : r.IPAddress \in IPsOf(logs[n]))
               <=> Key(r) \in Keys(existingCorrelations)
        /\ \A c \in existingCorrelations :
               \E r \in table :
                   /\ Key(r) = Key(c)
                   /\ r.FirstSeen = c.FirstSeen /\ r.LastSeen = c.LastSeen
                   /\ r.ConfidenceScore = c.ConfidenceScore
                   /\ r.SourceSystems = c.SourceSystems

---------------------------------------------------------------------------
C14_Bonus(c) ==
    IF c.ConfidenceScore > 8000 THEN 2000
    ELSE IF c.ConfidenceScore > 6000 THEN 1000 ELSE 0

RECURSIVE C14_Sum(_, _)
C14_Sum(acc, cs) ==
    IF cs = <<>> THEN acc
    ELSE C14_Sum(IF C14_Bonus(Head(cs)) = 0 THEN acc
                 ELSE FAdd(acc, C14_Bonus(Head(cs))), Tail(cs))

C14_SourceBonus(ls) ==
    LET n == Cardinality({ls[m].Source : m \in 1..Len(ls)})
    IN  IF n > 2 THEN 3000 ELSE IF n > 1 THEN 2000 ELSE 0

C14_Formula(ls, cs) ==
    LET s == C14_Sum(FMulTenth(Len(cs)), cs)
        t == IF C14_SourceBonus(ls) = 0 THEN s ELSE FAdd(s, C14_SourceBonus(ls))
    IN  Min(10000, t)

C15_ZeroForNothing ==
    (pc = "aggregated" /\ allCorrelations = {} /\ SourceMap(logs) = {})
        => correlationScore = 0

C15_Witness ==
    /\ pc = "aggregated"
    /\ allCorrelations = {}
    /\ logs = <<>>
    /\ correlationScore = 0

---------------------------------------------------------------------------
C17_NoSharedContext(a, b) ==
    /\ ~ (a.CompanyCode # "" /\ a.CompanyCode = b.CompanyCode)
    /\ ~ (a.Host # "" /\ a.Host = b.Host)

C17_Pair(a, b) ==
    /\ a.UserEmails = <<"u1">> /\ a.IPAddresses = <<>>
    /\ b.UserEmails = <<>> /\ b.IPAddresses = <<"i1">>
    /\ Abs(a.Timestamp - b.Timestamp) = 2 * Minute
    /\ C17_NoSharedContext(a, b)

(* C17: for two records 2 minutes apart, one carrying only an identity and *)
(* the other only an address, with no shared company code or host,         *)
(* buildUserIPCorrelations emits one correlation for that pair, with       *)
(* method time_proximity and confidence 0.7, whichever record is earlier   *)
(* and whichever comes first in the list.                                  *)
C17_TwoMinutesApart ==
    (/\ pc = "built"
     /\ Len(logs) = 2
     /\ (C17_Pair(logs[1], logs[2]) \/ C17_Pair(logs[2], logs[1])))
        => /\ Cardinality(userCorrelations) = 1
           /\ \A c \in userCorrelations :
                  /\ Key(c) = <<"u1", "i1">>
                  /\ c.CorrelationType = "time_proximity"
                  /\ c.ConfidenceScore = 7000

C17_Witness ==
    /\ pc = "built"
    /\ Len(logs) = 2
    /\ C17_Pair(logs[2], logs[1])
    /\ logs[1].Timestamp = 0 /\ logs[2].Timestamp = 2
    /\ logs[1].Host = "h1" /\ logs[2].CompanyCode = "c1"
    /\ \E c \in userCorrelations :
           c.ConfidenceScore = 7000 /\ c.FirstSeen = 2 /\ c.LastSeen = 0

---------------------------------------------------------------------------
C12_Greatest(xs) == CHOOSE x \in xs : \A y \in xs : y <= x

(* C12: under any interleaving of concurrent runs writing the same         *)
(* (identity, address) key no update is lost: once all writes have         *)
(* completed, the stored confidence is the maximum of all written          *)
(* confidences, the stored last_seen the latest of all written last_seen   *)
(* values and the stored sources the union of all written sources.         *)
C12_NoLostUpdate ==
    (\A w \in DOMAIN workers : workers[w] = {}) =>
        \A k \in Keys(written) :
            LET ws == {c \in written : Key(c) = k}
            IN  /\ k \in Keys(table)
                /\ Lookup(table, k).ConfidenceScore
                       = C12_Greatest({c.ConfidenceScore : c \in ws})
                /\ Lookup(table, k).LastSeen
                       = C12_Greatest({c.LastSeen : c \in ws})
                /\ Lookup(table, k).SourceSystems
                       = UNION {c.SourceSystems : c \in ws}

---------------------------------------------------------------------------
(* The one raw record is a JSON object with a valid client address a and a *)
(* user email e and nothing else.                                          *)
C16_SingleRecord(a, e) ==
    /\ Len(lokiLogs) = 1
    /\ lokiLogs[1].Line.json
    /\ lokiLogs[1].Line.members
           = <<Member("clientIP", a), Member("user_email", e)>>
    /\ isValidIP(a)

(* C16: end to end, a single raw record whose text is a JSON object with   *)
(* one client address and one user email, and no company code or host,     *)
(* normalizes to one record with that address and that identity, and       *)
(* buildUserIPCorrelations over it emits exactly one correlation, with     *)
(* method direct and confidence 0.9.                                       *)
C16_EndToEnd ==
    \A a \in IPTexts, e \in EmailTexts :
        C16_SingleRecord(a, e) =>
            /\ pc \in {"normalized", "built"} =>
                   /\ Len(logs) = 1
                   /\ logs[1].IPAddresses = <<a>>
                   /\ logs[1].UserEmails = <<ToLower(e)>>
                   /\ logs[1].CompanyCode = ""
                   /\ logs[1].Host = ""
            /\ pc = "built" =>
                   /\ Cardinality(userCorrelations) = 1
                   /\ \A c \in userCorrelations :
                          /\ Key(c) = <<ToLower(e), a>>
                          /\ c.CorrelationType = "direct"
                          /\ c.ConfidenceScore = DirectConfidence

C16_Witness ==
    /\ pc = "built"
    /\ C16_SingleRecord("i1", "u1")
    /\ \E c \in userCorrelations : c.CorrelationType = "direct"

---------------------------------------------------------------------------
(* The state of the run of the spec's state machine the handler is in. *)
C18_Phase(at) ==
    CASE at = "idle" -> "queued"
      [] at \in {"correlating", "storing", "merging"} -> "correlating"
      [] at = "done" -> "persisting"
      [] OTHER -> at

C18_Order ==
    {<<"queued", "fetching_logs">>, <<"fetching_logs", "normalizing">>,
     <<"normalizing", "correlating">>, <<"correlating", "persisting">>,
     <<"persisting", "completed">>, <<"completed", "queued">>,
     <<"queued", "failed">>, <<"correlating", "failed">>,
     <<"persisting", "failed">>, <<"failed", "queued">>}

C18_InOrder ==
    C18_Phase(pc') # C18_Phase(pc) =>
        <<C18_Phase(pc), C18_Phase(pc')>> \in C18_Order

C18_EmptyResult ==
    /\ logs = <<>>
    /\ getStoredAnalysisResult(analysisResults, alert).err = FALSE
    /\ getStoredAnalysisResult(analysisResults, alert).result.UserCorrelations
           = <<>>
    /\ getStoredAnalysisResult(analysisResults, alert).result.EnrichmentData
           .correlation_score = 0

(* C18: the run of one alert passes through fetching_logs, normalizing,    *)
(* correlating and persisting in that order before completed; a failure of *)
(* the log source does not fail the run: the handler goes on with an empty *)
(* record set, fails only if the write of the analysis result fails, and   *)
(* otherwise reaches completed with an analysis result that holds zero     *)
(* correlations and aggregate score 0.0.                                   *)
C18_RunOfOneAlert ==
    /\ [][C18_InOrder]_vars
    /\ [][lokiFailed' /\ pc' = "failed" /\ pc # "failed" => pc = "done"]_vars
    /\ [](lokiFailed /\ pc = "completed" => C18_EmptyResult)
    /\ (lokiFailed /\ pc = "normalizing") ~> (pc \in {"completed", "failed"})

C18_Witness ==
    /\ lokiFailed
    /\ pc = "completed"
    /\ C18_EmptyResult

---------------------------------------------------------------------------
(* C19: a store failure is fatal for the current run: if a correlation-    *)
(* store write, the correlation-store read or the analysis-result write    *)
(* fails during a run, the run ends in failed and no analysis result is    *)
(* written for that alert; so a run in which a correlation-store write     *)
(* returned an error never reaches completed.                              *)
C19_StoreFailureFatal == storeFailed => pc # "completed"

---------------------------------------------------------------------------
(* C20: the analysis-result store holds at most one result per alert       *)
(* identifier, and getStoredAnalysisResult for an alert id returns the     *)
(* bundle of the latest successful storeAnalysisResult for that id.        *)
C20_OneResultPerAlert ==
    /\ \A r1, r2 \in analysisResults : r1.alert_id = r2.alert_id => r1 = r2
    /\ \A id \in DOMAIN lastResult :
           getStoredAnalysisResult(analysisResults, id)
               = [err |-> FALSE, result |-> lastResult[id].result]

C20_Witness ==
    \E id \in DOMAIN lastResult :
        /\ lastResult[id].writes = 2
        /\ pc = "completed"
        /\ alert = id
        /\ logs = <<>>
        /\ table # {}
        /\ getStoredAnalysisResult(analysisResults, id).result.CorrelatedLogs
               = <<>>

---------------------------------------------------------------------------
(* C21: for every raw text, the identity list of the normalized record     *)
(* holds only lowercased strings and no string twice, also when the text   *)
(* contains the same email address in different letter cases.              *)
C21_LowercaseAndDistinct ==
    pc \in {"normalized", "built"} =>
        \A n \in 1..Len(logs) :
            /\ \A m \in 1..Len(logs[n].UserEmails) :
                   ToLower(logs[n].UserEmails[m]) = logs[n].UserEmails[m]
            /\ \A m1, m2 \in 1..Len(logs[n].UserEmails) :
                   logs[n].UserEmails[m1] = logs[n].UserEmails[m2] => m1 = m2

---------------------------------------------------------------------------
(* The line holds no string that the email or the address pattern matches. *)
C22_NothingToFind(line) ==
    \A n \in 1..Len(LineText(line.members)) :
        LineText(line.members)[n] \notin EmailTexts \cup IPTexts

(* C22: normalization never fails the batch: every raw record yields a     *)
(* record, with empty address and identity lists when nothing is found, so *)
(* the normalized list holds exactly one record per fetched raw record, in *)
(* the fetched order.                                                      *)
C22_OneRecordPerRawRecord ==
    pc \in {"normalized", "built"} =>
        /\ Len(logs) = Len(lokiLogs)
        /\ \A n \in 1..Len(lokiLogs) :
               /\ logs[n].Timestamp = lokiLogs[n].Timestamp
               /\ logs[n].IPAddresses = extractIPs(lokiLogs[n].Line)
               /\ logs[n].UserEmails = extractEmails(lokiLogs[n].Line)
               /\ C22_NothingToFind(lokiLogs[n].Line) =>
                      logs[n].IPAddresses = <<>> /\ logs[n].UserEmails = <<>>

C22_Witness ==
    /\ pc = "normalized"
    /\ Len(lokiLogs) = 2
    /\ lokiLogs[1].Timestamp > lokiLogs[2].Timestamp
    /\ ~ lokiLogs[1].Line.json
    /\ C22_NothingToFind(lokiLogs[1].Line)
    /\ logs[2].UserEmails # <<>>

---------------------------------------------------------------------------
(* C23: every time_proximity correlation the correlation engine produces   *)
(* has a confidence between 0.5 and 0.8.                                   *)
C23_TimeProximityRange ==
    pc = "built" =>
        \A c \in userCorrelations :
            c.CorrelationType = "time_proximity" =>
                c.ConfidenceScore >= 5000 /\ c.ConfidenceScore <= 8000

---------------------------------------------------------------------------
(* C24: there is no rollback on the store: when a run fails after some     *)
(* correlations were upserted, because the later store read or the write   *)
(* of the analysis result fails, every correlation upserted by that run    *)
(* before the failure remains stored.  No step takes a row away or lowers  *)
(* it, and the step into failed leaves the table as it is.                 *)
C24_NoRollback ==
    [][/\ \A r \in table :
             \E r2 \in table' :
                 /\ Key(r2) = Key(r)
                 /\ r2.ConfidenceScore >= r.ConfidenceScore
                 /\ r2.LastSeen >= r.LastSeen
                 /\ r.SourceSystems \subseteq r2.SourceSystems
       /\ pc' = "failed" /\ pc # "failed" => table' = table]_vars

C24_Witness ==
    /\ pc = "failed"
    /\ runs = 1
    /\ \E c \in userCorrelations : Key(c) \in Keys(table)

---------------------------------------------------------------------------
(* C25: within one run a correlation is written to the correlation store   *)
(* only after it has been merged with the stored correlation of the same   *)
(* key: no store write of a run precedes that run's fetch of the           *)
(* historical correlations and the merge.                                  *)
C25_WriteAfterMerge ==
    [][submitted' # submitted \/ table' # table => pc = "done"]_vars

---------------------------------------------------------------------------
(* Identity, address and the two timestamps of every pairing of an         *)
(* identity-bearing record a with an address-bearing record b of one time  *)
(* group, a's timestamp first.                                             *)
C26_Pairings(gs) ==
    UNION {UNION {{<<email, ip, gs[g][x].Timestamp, gs[g][y].Timestamp>> :
                      email \in EmailsOf(gs[g][x]), ip \in IPsOf(gs[g][y])} :
                  x \in 1..Len(gs[g]), y \in 1..Len(gs[g])} :
           g \in 1..Len(gs)}

(* C26: every time_proximity candidate built from an identity-bearing      *)
(* record a and an address-bearing record b has first_seen = a.timestamp   *)
(* and last_seen = b.timestamp, also when b is chronologically earlier     *)
(* than a.                                                                 *)
C26_IdentitySideFirst ==
    pc = "built" =>
        LET cands == TimeProximityCandidates(logs)
        IN  {<<cands[n].UserIdentifier, cands[n].IPAddress, cands[n].FirstSeen,
               cands[n].LastSeen>> : n \in 1..Len(cands)}
                = C26_Pairings(groupLogsByTime(logs, GroupWindow * Minute))

C26_Witness ==
    /\ pc = "built"
    /\ Len(logs) = 2
    /\ logs[1].IPAddresses # <<>> /\ logs[1].UserEmails = <<>>
    /\ logs[2].UserEmails # <<>> /\ logs[2].IPAddresses = <<>>
    /\ logs[2].Timestamp > logs[1].Timestamp
    /\ \E c \in userCorrelations :
           /\ c.CorrelationType = "time_proximity"
           /\ c.FirstSeen = logs[2].Timestamp
           /\ c.LastSeen = logs[1].Timestamp

---------------------------------------------------------------------------
---------------------------------------------------------------------------
C28_At(ls, t) == SelectSeq(ls, LAMBDA l : l.Timestamp = t)

(* C28: groupLogsByTime partitions its input: for a non-empty input every  *)
(* record appears in exactly one group, no group is empty, the records     *)
(* inside a group and the groups themselves are in ascending timestamp     *)
(* order with equal timestamps kept in input order, and the input list     *)
(* itself is left unchanged.                                               *)
C28_Partition ==
    [][Group =>
          /\ logs' = logs
          /\ Len(logs) > 0 =>
                 /\ Len(Flatten(groups')) = Len(logs)
                 /\ C4_Ascending(Flatten(groups'))
                 /\ \A t \in GroupTimes :
                        C28_At(Flatten(groups'), t) = C28_At(logs, t)
                 /\ \A g \in 1..Len(groups') : Len(groups'[g]) > 0]_vars

C28_Witness ==
    /\ pc = "grouped"
    /\ Len(logs) = 3
    /\ logs[1].Timestamp > logs[2].Timestamp
    /\ logs[2].Timestamp = logs[3].Timestamp
    /\ logs[2].Source # logs[3].Source
    /\ Len(groups) = 2
    /\ groups[1] = <<logs[2], logs[3]>>

---------------------------------------------------------------------------
(* C29: mergeCorrelations loses and invents no key: the key set of its     *)
(* output is the union of the key sets of the fresh and the historical     *)
(* input, with exactly one correlation per key, and a key present only in  *)
(* the historical input keeps its stored confidence, sources and           *)
(* timestamps unchanged.                                                   *)
C29_KeysPreserved ==
    pc \in {"merged", "remerged"} =>
        /\ Keys(allCorrelations)
               = Keys(userCorrelations) \cup Keys(existingCorrelations)
        /\ UniqueKeys(allCorrelations)
        /\ \A h \in existingCorrelations :
               Key(h) \notin Keys(userCorrelations) => h \in allCorrelations

C29_Witness ==
    /\ pc = "merged"
    /\ \E h \in existingCorrelations : Key(h) \notin Keys(userCorrelations)
    /\ \E f \in userCorrelations : Key(f) \notin Keys(existingCorrelations)
    /\ Keys(userCorrelations) \cap Keys(existingCorrelations) # {}

---------------------------------------------------------------------------
(* C30: in CorrelateLogsForAlert, when all store writes and the store read *)
(* succeed, every key the builder produced in this run is found again by   *)
(* the following read, so every correlation of the final set carries       *)
(* method historical and the stored first_seen and last_seen, and none     *)
(* carries direct or time_proximity.                                       *)
C30_AllHistorical ==
    pc = "done" /\ ~ storeFailed =>
        /\ Keys(userCorrelations) \subseteq Keys(existingCorrelations)
        /\ \A c \in allCorrelations :
               /\ c.CorrelationType = "historical"
               /\ \E r \in table :
                      /\ Key(r) = Key(c)
                      /\ r.FirstSeen = c.FirstSeen
                      /\ r.LastSeen = c.LastSeen

=============================================================================
